---- MODULE Spec2Model ----
(***************************************************************************)
(* Forest scorer of catboost-optimize: the hand-optimized catboostPredict  *)
(* entry points (memory-, categorical-, SIMD- and fully-optimized), the    *)
(* string-based wrappers around ApplyCatboostModel, and the pure stages    *)
(* they are built from (numeric binarization, one-hot binarization, CTR    *)
(* binarization, oblivious-tree evaluation, aggregation).                  *)
(*                                                                         *)
(* Number representation.  A C++ float holding a raw feature or a border   *)
(* is an integer counting halves (3 stands for 1.5), so that the           *)
(* float -> int conversions of the categorical indices are not the         *)
(* identity.  An unsigned char is an integer 0..255 and every store to one *)
(* is reduced modulo 256.  A double (leaf values, scale, bias, the running *)
(* sum) is an integer rounded to DoubleBits significant bits after every   *)
(* operation, a float score one rounded to FloatBits significant bits;     *)
(* leaf values, scale and bias of a model are integers in the unit of the  *)
(* score, each representable in DoubleBits bits as a stored double is.     *)
(***************************************************************************)
EXTENDS Integers, Sequences, FiniteSets, TLC

(***************************************************************************)
(* Bounds of the model.                                                    *)
(***************************************************************************)
\* longest border list that is enumerated exhaustively over BorderVals
MaxBorders == 13
\* significant bits kept by a double / by a float (53 and 24 in the build)
DoubleBits == 4
FloatBits == 3

(***************************************************************************)
(* Machine arithmetic.                                                     *)
(***************************************************************************)
RECURSIVE Pow2(_)
Pow2(n) == IF n <= 0 THEN 1 ELSE 2 * Pow2(n - 1)

\* width of an unsigned char: every store to one keeps the low 8 bits
ByteMod == 256

ToByteLow7(v) == v % (ByteMod \div 2)

ToByte(v) == v % ByteMod

\* a += b on an unsigned char a
ByteAdd(a, b) == ToByte(a + b)

RECURSIVE BitAnd(_, _)
BitAnd(a, b) ==
    IF a = 0 \/ b = 0 THEN 0
    ELSE (a % 2) * (b % 2) + 2 * BitAnd(a \div 2, b \div 2)

RECURSIVE BitOr(_, _)
BitOr(a, b) ==
    IF a = 0 THEN b
    ELSE IF b = 0 THEN a
    ELSE (IF a % 2 = 1 \/ b % 2 = 1 THEN 1 ELSE 0) + 2 * BitOr(a \div 2, b \div 2)

RECURSIVE BitXor(_, _)
BitXor(a, b) ==
    IF a = 0 THEN b
    ELSE IF b = 0 THEN a
    ELSE (IF a % 2 = b % 2 THEN 0 ELSE 1) + 2 * BitXor(a \div 2, b \div 2)

\* v << n on an unsigned int that does not overflow
ShiftLeft(v, n) == v * Pow2(n)

RECURSIVE PopCount(_)
PopCount(m) == IF m = 0 THEN 0 ELSE (m % 2) + PopCount(m \div 2)

(***************************************************************************)
(* Numeric binarization: one slot of the binarized feature vector.         *)
(* Sequences are 1-based, so borders[j + 1] is the C++ borders[j].         *)
(***************************************************************************)
\* (floatFeature > border) as the int 0 or 1
GtFlipped(floatFeature, border) == IF floatFeature < border THEN 1 ELSE 0

GtOrEqual(floatFeature, border) == IF floatFeature >= border THEN 1 ELSE 0

Gt(floatFeature, border) == IF floatFeature > border THEN 1 ELSE 0

\* iterations lo .. hi-1 of: acc += (floatFeature > borders[j]), in increasing
\* j (the range is halved, and the first half evaluated before the second is
\* entered, only to keep the evaluation shallow; a byte is never negative)
RECURSIVE ScalarRange(_, _, _, _, _)
ScalarRange(acc, floatFeature, bs, lo, hi) ==
    IF lo >= hi THEN acc
    ELSE IF hi = lo + 1 THEN ByteAdd(acc, Gt(floatFeature, bs[lo + 1]))
    ELSE LET mid  == (lo + hi) \div 2
             left == ScalarRange(acc, floatFeature, bs, lo, mid)
         IN  IF left < 0 THEN left
             ELSE ScalarRange(left, floatFeature, bs, mid, hi)

\* for (; j < borders.size(); ++j) acc += (floatFeature > borders[j]);
ScalarBorders(acc, floatFeature, bs, j) == ScalarRange(acc, floatFeature, bs, j, Len(bs))

\* memory-optimized: range-for accumulating into the (cleared) buffer slot
MemoryBinarizeFloat(slot, floatFeature, bs) == ScalarBorders(slot, floatFeature, bs, 0)

\* number of iterations of: for (j = 0; j + (w - 1) < n; j += w)
IterationsOf(n, w) == Cardinality({k \in 0..n : w * k + (w - 1) < n})

\* categorical-optimized: the body of
\*   for (; j + 3 < numBorders; j += 4) { four += into the slot }
Unrolled4Body(acc, floatFeature, bs, j) ==
    ByteAdd(ByteAdd(ByteAdd(ByteAdd(acc,
        Gt(floatFeature, bs[j + 1])),
        Gt(floatFeature, bs[j + 2])),
        Gt(floatFeature, bs[j + 3])),
        Gt(floatFeature, bs[j + 4]))

\* iterations kLo .. kHi-1 of that loop (j = 4k), in increasing k
RECURSIVE Unrolled4Range(_, _, _, _, _)
Unrolled4Range(acc, floatFeature, bs, kLo, kHi) ==
    IF kLo >= kHi THEN acc
    ELSE IF kHi = kLo + 1 THEN Unrolled4Body(acc, floatFeature, bs, 4 * kLo)
    ELSE LET mid  == (kLo + kHi) \div 2
             left == Unrolled4Range(acc, floatFeature, bs, kLo, mid)
         IN  IF left < 0 THEN left
             ELSE Unrolled4Range(left, floatFeature, bs, mid, kHi)

\* the loop from j = 0: the accumulator and j when it exits
Unrolled4(acc, floatFeature, bs) ==
    LET k == IterationsOf(Len(bs), 4)
    IN  <<Unrolled4Range(acc, floatFeature, bs, 0, k), 4 * k>>

CategoricalBinarizeFloat(slot, floatFeature, bs) ==
    LET u == Unrolled4(slot, floatFeature, bs)
    IN  ScalarBorders(u[1], floatFeature, bs, u[2])

\* wasm_f32x4_gt(splat(floatFeature), make(b0, b1, b2, b3)): an all-ones lane
\* (-1 as an int32) where the comparison holds, 0 elsewhere
F32x4Gt(floatFeature, b0, b1, b2, b3) ==
    [l \in 0..3 |-> LET b == IF l = 0 THEN b0 ELSE IF l = 1 THEN b1
                             ELSE IF l = 2 THEN b2 ELSE b3
                    IN  IF Gt(floatFeature, b) = 1 THEN -1 ELSE 0]

\* wasm_i32x4_extract_lane(cmp, l) & 1
LaneAnd1(cmp, l) == cmp[l] % 2

\* SIMD-optimized: the body of
\*   for (; j + 3 < borders.size(); j += 4) { accumulator += lane & 1, 4 times }
Simd4Body(acc, floatFeature, bs, j) ==
    LET cmp == F32x4Gt(floatFeature, bs[j + 1], bs[j + 2], bs[j + 3], bs[j + 4])
    IN  ByteAdd(ByteAdd(ByteAdd(ByteAdd(acc,
            LaneAnd1(cmp, 0)), LaneAnd1(cmp, 1)),
            LaneAnd1(cmp, 2)), LaneAnd1(cmp, 3))

RECURSIVE Simd4Range(_, _, _, _, _)
Simd4Range(acc, floatFeature, bs, kLo, kHi) ==
    IF kLo >= kHi THEN acc
    ELSE IF kHi = kLo + 1 THEN Simd4Body(acc, floatFeature, bs, 4 * kLo)
    ELSE LET mid  == (kLo + kHi) \div 2
             left == Simd4Range(acc, floatFeature, bs, kLo, mid)
         IN  IF left < 0 THEN left
             ELSE Simd4Range(left, floatFeature, bs, mid, kHi)

Simd4(acc, floatFeature, bs) ==
    LET k == IterationsOf(Len(bs), 4)
    IN  <<Simd4Range(acc, floatFeature, bs, 0, k), 4 * k>>

\* SIMD-optimized: a local accumulator, stored to the slot at the end
SimdBinarizeFloat(floatFeature, bs) ==
    LET u == Simd4(0, floatFeature, bs)
    IN  ScalarBorders(u[1], floatFeature, bs, u[2])

\* wasm_i32x4_bitmask(cmp): bit l is the sign bit of lane l
I32x4Bitmask(cmp) ==
    (IF cmp[0] < 0 THEN 1 ELSE 0) + (IF cmp[1] < 0 THEN 2 ELSE 0)
  + (IF cmp[2] < 0 THEN 4 ELSE 0) + (IF cmp[3] < 0 THEN 8 ELSE 0)

\* fully-optimized: the body of
\*   for (; j + 7 < numBorders; j += 8) { two 4-wide compares, two popcounts }
Simd8Body(acc, floatFeature, bs, j) ==
    LET cmp1 == F32x4Gt(floatFeature, bs[j + 1], bs[j + 2], bs[j + 3], bs[j + 4])
        cmp2 == F32x4Gt(floatFeature, bs[j + 5], bs[j + 6], bs[j + 7], bs[j + 8])
    IN  ByteAdd(ByteAdd(acc, PopCount(I32x4Bitmask(cmp1))),
                PopCount(I32x4Bitmask(cmp2)))

RECURSIVE Simd8Range(_, _, _, _, _)
Simd8Range(acc, floatFeature, bs, kLo, kHi) ==
    IF kLo >= kHi THEN acc
    ELSE IF kHi = kLo + 1 THEN Simd8Body(acc, floatFeature, bs, 8 * kLo)
    ELSE LET mid  == (kLo + kHi) \div 2
             left == Simd8Range(acc, floatFeature, bs, kLo, mid)
         IN  IF left < 0 THEN left
             ELSE Simd8Range(left, floatFeature, bs, mid, kHi)

Simd8(acc, floatFeature, bs) ==
    LET k == IterationsOf(Len(bs), 8)
    IN  <<Simd8Range(acc, floatFeature, bs, 0, k), 8 * k>>

\* fully-optimized: if (j + 3 < numBorders) { masked 4-wide compare; j += 4; }
\* a lane past the end of the list is padded with 0.0f
MaskedRemainder4NoAdvance(acc, floatFeature, bs, j) ==
    IF j + 3 < Len(bs)
    THEN LET n   == Len(bs)
             pad(k) == IF k < n THEN bs[k + 1] ELSE 0
             cmp == F32x4Gt(floatFeature, bs[j + 1], pad(j + 1), pad(j + 2), pad(j + 3))
             mask == ShiftLeft(1, n - j) - 1
         IN  <<ByteAdd(acc, PopCount(BitAnd(I32x4Bitmask(cmp), mask))), j>>
    ELSE <<acc, j>>

MaskedRemainder4(acc, floatFeature, bs, j) ==
    IF j + 3 < Len(bs)
    THEN LET n   == Len(bs)
             pad(k) == IF k < n THEN bs[k + 1] ELSE 0
             cmp == F32x4Gt(floatFeature, bs[j + 1], pad(j + 1), pad(j + 2), pad(j + 3))
             mask == ShiftLeft(1, n - j) - 1
         IN  <<ByteAdd(acc, PopCount(BitAnd(I32x4Bitmask(cmp), mask))), j + 4>>
    ELSE <<acc, j>>

FullyBinarizeFloat(floatFeature, bs) ==
    LET u == Simd8(0, floatFeature, bs)
        r == MaskedRemainder4(u[1], floatFeature, bs, u[2])
    IN  ScalarBorders(r[1], floatFeature, bs, r[2])

\* the four hand-optimized scorers
OptVariants == {"memory", "categorical", "simd", "fully"}

\* the byte a variant leaves in the slot of one numeric feature whose slot
\* held `slot` when the feature loop reached it
BinarizeFloat(v, slot, floatFeature, bs) ==
    CASE v = "memory"      -> MemoryBinarizeFloat(slot, floatFeature, bs)
      [] v = "categorical" -> CategoricalBinarizeFloat(slot, floatFeature, bs)
      [] v = "simd"        -> SimdBinarizeFloat(floatFeature, bs)
      [] v = "fully"       -> FullyBinarizeFloat(floatFeature, bs)

(***************************************************************************)
(* Floating-point results: doubles and floats keep a bounded number of     *)
(* significant bits, round-to-nearest, ties to even.                       *)
(***************************************************************************)
RECURSIVE BitLength(_)
BitLength(a) == IF a = 0 THEN 0 ELSE 1 + BitLength(a \div 2)

Abs(x) == IF x < 0 THEN -x ELSE x

\* x rounded to p significant bits
RoundBits(x, p) ==
    LET a == Abs(x)
        e == BitLength(a)
    IN  IF e <= p THEN x
        ELSE LET q   == Pow2(e - p)
                 m   == a \div q
                 rem == a - m * q
                 up  == (2 * rem > q) \/ (2 * rem = q /\ m % 2 = 1)
                 r   == IF up THEN (m + 1) * q ELSE m * q
             IN  IF x < 0 THEN -r ELSE r

\* a + b and a * b on doubles
DAdd(a, b) == RoundBits(a + b, DoubleBits)
DMul(a, b) == RoundBits(a * b, DoubleBits)

\* static_cast<float>(double)
ToFloat(d) == RoundBits(d, FloatBits)

(***************************************************************************)
(* Categorical features: index -> hash.                                    *)
(***************************************************************************)
CUT_HASHES == <<1754990671, -570237862, 1700310925, 1933222421, 610519841>>
COLOR_HASHES ==
    <<-1095458675, 1348280313, -472349076, -896563403, -1292729504, 1719715171, -204260682>>
CLARITY_HASHES ==
    <<-1581449724, 579192095, -1896862659, 2143106594, 88967919, 1708347785,
      1353923139, -117150168>>

HashTables == <<CUT_HASHES, COLOR_HASHES, CLARITY_HASHES>>

\* 0x7fFFffFF, stored for an index outside its table
SentinelHash == 2147483647

\* static_cast<int>(float): truncation toward zero (the float counts halves)
StaticCastInt(f) == IF f >= 0 THEN f \div 2 ELSE -((-f) \div 2)

\* std::round(float) as an int: halves away from zero
StdRound(f) == IF f >= 0 THEN (f + 1) \div 2 ELSE -((1 - f) \div 2)

\* (index >= 0 && index < N) ? TABLE[index] : 0x7fFFffFF, for slot 0 (cut),
\* 1 (color), 2 (clarity)
LookupHash(slot, index) ==
    IF index >= 0 /\ index < Len(HashTables[slot + 1])
    THEN HashTables[slot + 1][index + 1]
    ELSE SentinelHash

\* hashes of features[6], features[7], features[8] (sequence positions 7..9)
DirectHashes(features) ==
    [s \in 1..3 |-> LookupHash(s - 1, StaticCastInt(features[6 + s]))]

(***************************************************************************)
(* One-hot binarization of one feature.                                    *)
(***************************************************************************)
\* (hash == value) * (borderIdx + 1)
OrdinalIfEqualZeroBased(hash, value, borderIdx) == IF hash = value THEN borderIdx ELSE 0

OrdinalIfEqual(hash, value, borderIdx) == IF hash = value THEN borderIdx + 1 ELSE 0

\* iterations lo .. hi-1 of: acc |= (hash == values[borderIdx]) * (borderIdx + 1)
\* on a byte acc, in increasing borderIdx (the range is halved, and the first
\* half evaluated before the second is entered, only to keep the evaluation
\* shallow; a byte is never negative)
RECURSIVE OneHotOrRange(_, _, _, _, _)
OneHotOrRange(acc, hash, values, lo, hi) ==
    IF hi <= lo THEN acc
    ELSE IF hi = lo + 1
    THEN ToByte(BitOr(acc, OrdinalIfEqual(hash, values[lo + 1], lo)))
    ELSE LET mid  == (lo + hi) \div 2
             left == OneHotOrRange(acc, hash, values, lo, mid)
         IN  IF left < 0 THEN left
             ELSE OneHotOrRange(left, hash, values, mid, hi)

\* for (borderIdx = k; borderIdx < values.size(); ++borderIdx)
\*     acc |= (hash == values[borderIdx]) * (borderIdx + 1);     (acc a byte)
OneHotOr(acc, hash, values, k) == OneHotOrRange(acc, hash, values, k, Len(values))

\* sums of the comparisons without their ordinals
FullyOneHotUnweighted(hash, values) ==
    IF Len(values) = 2
    THEN ToByte(OrdinalIfEqual(hash, values[1], 0) + OrdinalIfEqual(hash, values[2], 0))
    ELSE IF Len(values) = 3
    THEN ToByte(OrdinalIfEqual(hash, values[1], 0) + OrdinalIfEqual(hash, values[2], 0)
                + OrdinalIfEqual(hash, values[3], 0))
    ELSE OneHotOr(0, hash, values, 0)

\* fully-optimized: sums for 2 and 3 values, the OR loop otherwise
FullyOneHot(hash, values) ==
    IF Len(values) = 2
    THEN ToByte(OrdinalIfEqual(hash, values[1], 0) + OrdinalIfEqual(hash, values[2], 1))
    ELSE IF Len(values) = 3
    THEN ToByte(OrdinalIfEqual(hash, values[1], 0) + OrdinalIfEqual(hash, values[2], 1)
                + OrdinalIfEqual(hash, values[3], 2))
    ELSE OneHotOr(0, hash, values, 0)

\* the byte a variant leaves in the slot of a one-hot feature with a
\* non-empty hash list; only the memory-optimized variant ORs into the slot
BinarizeOneHot(v, slot, hash, values) ==
    CASE v = "memory" -> OneHotOr(slot, hash, values, 0)
      [] v = "fully"  -> FullyOneHot(hash, values)
      [] OTHER        -> OneHotOr(0, hash, values, 0)

(***************************************************************************)
(* The binarization stages of one call, over the thread-local buffer.      *)
(* A buffer is a function from offsets 0 .. capacity-1 to bytes; the stage *)
(* state st is [buf, idx] with idx the running binFeatureIndex.            *)
(***************************************************************************)
\* binaryFeaturesBuffer[84], and [96] in the fully-optimized variant
BufferSize84 == 84
BufferSize96 == 96

Capacity(v) == IF v = "fully" THEN BufferSize96 ELSE BufferSize84

\* offsets of the 16-byte stores that clear the buffer in the SIMD variants
SimdStoreOffsets == {0, 16, 32, 48, 64, 80}

\* memset(buf, 0, BinaryFeatureCount), or the 16-byte zero stores; bytes of
\* the buffer that the variant does not clear keep their value
ClearNothing(v, buf, model) == buf

\* the offsets from the start of the buffer that the clearing writes:
\* BinaryFeatureCount bytes, or 16 bytes at each store offset
ZeroStores(v, model) ==
    IF v \in {"memory", "categorical"}
    THEN 0..(model.BinaryFeatureCount - 1)
    ELSE UNION {b..(b + 15) : b \in SimdStoreOffsets}

ClearBuffer(v, buf, model) ==
    [o \in DOMAIN buf |-> IF o \in ZeroStores(v, model) THEN 0 ELSE buf[o]]

\* number of iterations of the float-feature loop: the memory-optimized
\* variant runs to FloatFeatureBorders.size(), the others to the literal 6
FloatIterations(v, model) ==
    IF v = "memory" THEN Len(model.FloatFeatureBorders) ELSE 6

\* iterations i .. of the float-feature loop
RECURSIVE FloatLoop(_, _, _, _, _)
FloatLoop(v, st, features, model, i) ==
    IF i >= FloatIterations(v, model) THEN st
    ELSE LET bs == model.FloatFeatureBorders[i + 1]
         IN  IF Len(bs) = 0 THEN FloatLoop(v, st, features, model, i + 1)
             ELSE FloatLoop(v,
                    [buf |-> [st.buf EXCEPT ![st.idx] =
                                 BinarizeFloat(v, st.buf[st.idx], features[i + 1], bs)],
                     idx |-> st.idx + 1],
                    features, model, i + 1)

\* catFeaturePackedIndexes.at(flat): the position of flat in CatFeaturesIndex
PackedIndex(model, flat) ==
    CHOOSE c \in 0..(model.CatFeatureCount - 1) : model.CatFeaturesIndex[c + 1] = flat

\* one iteration of the one-hot loop; hashes is the transposed hash triple
OneHotBody(v, st, hashes, model, i) ==
    LET catIdx == PackedIndex(model, model.OneHotCatFeatureIndex[i + 1])
        hash   == hashes[catIdx + 1]
        values == model.OneHotHashValues[i + 1]
    IN  IF Len(values) = 0 THEN st
        ELSE [buf |-> [st.buf EXCEPT ![st.idx] =
                          BinarizeOneHot(v, st.buf[st.idx], hash, values)],
              idx |-> st.idx + 1]

\* iterations lo .. hi - 1 of the one-hot loop, in order
RECURSIVE OneHotRange(_, _, _, _, _, _)
OneHotRange(v, st, hashes, model, lo, hi) ==
    IF hi <= lo THEN st
    ELSE IF hi = lo + 1 THEN OneHotBody(v, st, hashes, model, lo)
    ELSE LET mid  == (lo + hi) \div 2
             left == OneHotRange(v, st, hashes, model, lo, mid)
         IN  IF left.idx < 0 THEN left
             ELSE OneHotRange(v, left, hashes, model, mid, hi)

\* iterations i .. of the one-hot loop
OneHotLoop(v, st, hashes, model, i) ==
    OneHotRange(v, st, hashes, model, i, Len(model.OneHotCatFeatureIndex))

\* std::vector<unsigned char>(buffer, buffer + BinaryFeatureCount)
Snapshot(buf, model) == [k \in 1..model.BinaryFeatureCount |-> buf[k - 1]]

\* CalcCtrs: one estimate per used CTR.  A descriptor names the binarized
\* slots and the categorical hashes that form its key; the estimate is the
\* table entry of the key, or the descriptor's default when the key is absent.
CalcCtrs(modelCtrs, binaryFeaturesVec, transposedHash) ==
    [c \in 1..modelCtrs.UsedModelCtrsCount |->
        LET d   == modelCtrs.descriptors[c]
            key == <<[k \in 1..Len(d.binSlots) |-> binaryFeaturesVec[d.binSlots[k] + 1]],
                     [k \in 1..Len(d.catSlots) |-> transposedHash[d.catSlots[k] + 1]]>>
        IN  IF key \in DOMAIN d.table THEN d.table[key] ELSE d.default]

\* the byte a variant leaves in the slot of one CTR feature
BinarizeCtr(v, slot, ctrValue, bs) ==
    CASE v \in {"memory", "categorical"} -> ScalarBorders(slot, ctrValue, bs, 0)
      [] v = "simd"                      -> SimdBinarizeFloat(ctrValue, bs)
      [] v = "fully"                     -> ScalarBorders(0, ctrValue, bs, 0)

\* iterations i .. of the loop over CtrFeatureBorders: every entry takes a slot
RECURSIVE CtrLoopSkipEmpty(_, _, _, _, _)
CtrLoopSkipEmpty(v, st, ctrs, model, i) ==
    IF i >= Len(model.CtrFeatureBorders) THEN st
    ELSE IF Len(model.CtrFeatureBorders[i + 1]) = 0
         THEN CtrLoopSkipEmpty(v, st, ctrs, model, i + 1)
         ELSE CtrLoopSkipEmpty(v,
                [buf |-> [st.buf EXCEPT ![st.idx] =
                             BinarizeCtr(v, st.buf[st.idx], ctrs[i + 1], model.CtrFeatureBorders[i + 1])],
                 idx |-> st.idx + 1],
                ctrs, model, i + 1)

RECURSIVE CtrLoop(_, _, _, _, _)
CtrLoop(v, st, ctrs, model, i) ==
    IF i >= Len(model.CtrFeatureBorders) THEN st
    ELSE CtrLoop(v,
           [buf |-> [st.buf EXCEPT ![st.idx] =
                        BinarizeCtr(v, st.buf[st.idx], ctrs[i + 1], model.CtrFeatureBorders[i + 1])],
            idx |-> st.idx + 1],
           ctrs, model, i + 1)

\* if (model.modelCtrs.UsedModelCtrsCount > 0) { snapshot; CalcCtrs; binarize }
CtrStageReserving(v, st, hashes, model) ==
    IF model.modelCtrs.UsedModelCtrsCount > 0
    THEN CtrLoop(v, st, CalcCtrs(model.modelCtrs, Snapshot(st.buf, model), hashes), model, 0)
    ELSE [buf |-> st.buf, idx |-> st.idx + Len(model.CtrFeatureBorders)]

CtrStage(v, st, hashes, model) ==
    IF model.modelCtrs.UsedModelCtrsCount > 0
    THEN CtrLoop(v, st, CalcCtrs(model.modelCtrs, Snapshot(st.buf, model), hashes), model, 0)
    ELSE st

\* clear, float features, one-hot features, CTR features
Binarize(v, buf, hashes, features, model) ==
    LET cleared == [buf |-> ClearBuffer(v, buf, model), idx |-> 0]
        floats  == FloatLoop(v, cleared, features, model, 0)
        onehot  == IF Len(model.OneHotCatFeatureIndex) > 0
                   THEN OneHotLoop(v, floats, hashes, model, 0) ELSE floats
    IN  CtrStage(v, onehot, hashes, model)

(***************************************************************************)
(* Oblivious-tree evaluation and aggregation.                              *)
(***************************************************************************)
\* ((buf[TreeSplitFeatureIndex[k]] ^ TreeSplitXorMask[k]) >= TreeSplitIdxs[k])
\* for position k of the split arrays, as the int 0 or 1
SplitBitStrict(buf, model, k) ==
    IF BitXor(buf[model.TreeSplitFeatureIndex[k + 1]], model.TreeSplitXorMask[k + 1])
         > model.TreeSplitIdxs[k + 1]
    THEN 1 ELSE 0

SplitBit(buf, model, k) ==
    IF BitXor(buf[model.TreeSplitFeatureIndex[k + 1]], model.TreeSplitXorMask[k + 1])
         >= model.TreeSplitIdxs[k + 1]
    THEN 1 ELSE 0

\* for (depth = d; depth < currentTreeDepth; ++depth)
\*     index |= (split bit at treeSplitsIdx + depth) << depth;
RECURSIVE LevelLoop(_, _, _, _, _, _)
LevelLoop(index, buf, model, treeSplitsIdx, currentTreeDepth, d) ==
    IF d >= currentTreeDepth THEN index
    ELSE LevelLoop(BitOr(index, ShiftLeft(SplitBit(buf, model, treeSplitsIdx + d), d)),
                   buf, model, treeSplitsIdx, currentTreeDepth, d + 1)

\* fully-optimized: traverseTree on pointers into the split arrays
traverseTree(buf, model, treeSplitsIdx, depth) ==
    LevelLoop(0, buf, model, treeSplitsIdx, depth, 0)

\* SIMD-optimized, depth 6: six statements index |= (...) << k
SimdUnrolled6(buf, model, t) ==
    BitOr(BitOr(BitOr(BitOr(BitOr(BitOr(0,
        ShiftLeft(SplitBit(buf, model, t), 0)),
        ShiftLeft(SplitBit(buf, model, t + 1), 1)),
        ShiftLeft(SplitBit(buf, model, t + 2), 2)),
        ShiftLeft(SplitBit(buf, model, t + 3), 3)),
        ShiftLeft(SplitBit(buf, model, t + 4), 4)),
        ShiftLeft(SplitBit(buf, model, t + 5), 5))

\* fully-optimized, depth 6 and depth 5: one expression b0 | b1 << 1 | ...
FullyUnrolled6(buf, model, t) ==
    BitOr(BitOr(BitOr(BitOr(BitOr(
        SplitBit(buf, model, t),
        ShiftLeft(SplitBit(buf, model, t + 1), 1)),
        ShiftLeft(SplitBit(buf, model, t + 2), 2)),
        ShiftLeft(SplitBit(buf, model, t + 3), 3)),
        ShiftLeft(SplitBit(buf, model, t + 4), 4)),
        ShiftLeft(SplitBit(buf, model, t + 5), 5))

\* an unrolling that repeats the shift of level 3 for level 4
FullyUnrolled5Repeat(buf, model, t) ==
    BitOr(BitOr(BitOr(BitOr(
        SplitBit(buf, model, t),
        ShiftLeft(SplitBit(buf, model, t + 1), 1)),
        ShiftLeft(SplitBit(buf, model, t + 2), 2)),
        ShiftLeft(SplitBit(buf, model, t + 3), 3)),
        ShiftLeft(SplitBit(buf, model, t + 4), 3))

FullyUnrolled5(buf, model, t) ==
    BitOr(BitOr(BitOr(BitOr(
        SplitBit(buf, model, t),
        ShiftLeft(SplitBit(buf, model, t + 1), 1)),
        ShiftLeft(SplitBit(buf, model, t + 2), 2)),
        ShiftLeft(SplitBit(buf, model, t + 3), 3)),
        ShiftLeft(SplitBit(buf, model, t + 4), 4))

\* the leaf index a variant computes for the tree whose splits start at
\* treeSplitsIdx
TreeIndex(v, buf, model, treeSplitsIdx, currentTreeDepth) ==
    CASE v = "simd" /\ currentTreeDepth = 6  -> SimdUnrolled6(buf, model, treeSplitsIdx)
      [] v = "fully" /\ currentTreeDepth = 6 -> FullyUnrolled6(buf, model, treeSplitsIdx)
      [] v = "fully" /\ currentTreeDepth = 5 -> FullyUnrolled5(buf, model, treeSplitsIdx)
      [] v = "fully" /\ currentTreeDepth \notin {5, 6} ->
             traverseTree(buf, model, treeSplitsIdx, currentTreeDepth)
      [] OTHER -> LevelLoop(0, buf, model, treeSplitsIdx, currentTreeDepth, 0)

\* the positions of the split arrays a tree of the given depth reads when
\* its splits start at treeSplitsIdx: splits[d], features[d], masks[d] for
\* d < depth, in the loop and in the unrolled expressions alike
SplitsRead(treeSplitsIdx, depth) == {treeSplitsIdx + d : d \in 0..(depth - 1)}

\* the state of the tree loop before the first tree: result, the offset of
\* leafValuesPtr into LeafValues, treeSplitsIdx, and the leaves read so far
TreeLoopStart == [result |-> 0, leafPtr |-> 0, splitsIdx |-> 0, leaves |-> <<>>]

\* one iteration of the tree loop, for tree treeId (0-based):
\*   result += leafValuesPtr[index][0];
\*   leafValuesPtr += 1 << currentTreeDepth;  treeSplitsIdx += currentTreeDepth;
TreeStepNoAdvance(v, ts, buf, model, treeId) ==
    LET depth == model.TreeDepth[treeId + 1]
        index == TreeIndex(v, buf, model, ts.splitsIdx, depth)
    IN  [result    |-> DAdd(ts.result, model.LeafValues[ts.leafPtr + index + 1][1]),
         leafPtr   |-> ts.leafPtr,
         splitsIdx |-> ts.splitsIdx + depth,
         leaves    |-> Append(ts.leaves, [tree |-> treeId, index |-> index,
                                          leaf |-> ts.leafPtr + index,
                                          splits |-> SplitsRead(ts.splitsIdx, depth)])]

\* an iteration that advances the leaf pointer by the depth, as it does the
\* split offset
TreeStepDepthStride(v, ts, buf, model, treeId) ==
    LET depth == model.TreeDepth[treeId + 1]
        index == TreeIndex(v, buf, model, ts.splitsIdx, depth)
    IN  [result    |-> DAdd(ts.result, model.LeafValues[ts.leafPtr + index + 1][1]),
         leafPtr   |-> ts.leafPtr + depth,
         splitsIdx |-> ts.splitsIdx + depth,
         leaves    |-> Append(ts.leaves, [tree |-> treeId, index |-> index,
                                          leaf |-> ts.leafPtr + index,
                                          splits |-> SplitsRead(ts.splitsIdx, depth)])]

TreeStep(v, ts, buf, model, treeId) ==
    LET depth == model.TreeDepth[treeId + 1]
        index == TreeIndex(v, buf, model, ts.splitsIdx, depth)
    IN  [result    |-> DAdd(ts.result, model.LeafValues[ts.leafPtr + index + 1][1]),
         leafPtr   |-> ts.leafPtr + ShiftLeft(1, depth),
         splitsIdx |-> ts.splitsIdx + depth,
         leaves    |-> Append(ts.leaves, [tree |-> treeId, index |-> index,
                                          leaf |-> ts.leafPtr + index,
                                          splits |-> SplitsRead(ts.splitsIdx, depth)])]

\* for (treeId = t; treeId < TreeCount; ++treeId)
RECURSIVE TreeLoop(_, _, _, _, _)
TreeLoop(v, ts, buf, model, treeId) ==
    IF treeId >= model.TreeCount THEN ts
    ELSE TreeLoop(v, TreeStep(v, ts, buf, model, treeId), buf, model, treeId + 1)

\* static_cast<float>(model.Scale * result + model.Biases[0])
FinalScoreBiasFirst(model, result) ==
    ToFloat(DMul(model.Scale, DAdd(result, model.Biases[1])))

FinalScore(model, result) ==
    ToFloat(DAdd(DMul(model.Scale, result), model.Biases[1]))

(***************************************************************************)
(* Category names and their hashes.                                        *)
(***************************************************************************)
\* categorical_mappings.json order: the order of the hash tables
cutCategories == <<"Ideal", "Premium", "Good", "Very Good", "Fair">>
colorCategories == <<"E", "I", "J", "H", "F", "G", "D">>
clarityCategories == <<"SI2", "SI1", "VS1", "VS2", "VVS2", "VVS1", "I1", "IF">>

MappingsJson == <<cutCategories, colorCategories, clarityCategories>>

\* README order: Fair=0 .. Ideal=4, J=0 .. D=6, I1=0 .. IF=7
CUT_MAPPING == <<"Fair", "Good", "Very Good", "Premium", "Ideal">>
COLOR_MAPPING == <<"J", "I", "H", "G", "F", "E", "D">>
CLARITY_MAPPING == <<"I1", "SI2", "SI1", "VS2", "VS1", "VVS2", "VVS1", "IF">>

ReadmeMappings == <<CUT_MAPPING, COLOR_MAPPING, CLARITY_MAPPING>>

CategoryNames ==
    UNION {{MappingsJson[s][k] : k \in 1..Len(MappingsJson[s])} : s \in 1..3}

\* hash of "Unknown" and of any other string that names no category
OtherHash == 0

\* CalcCatFeatureHash: the hash of a category name is the entry of the hash
\* table at the name's position in categorical_mappings.json
CalcCatFeatureHash(name) ==
    IF \E s \in 1..3 : \E k \in 1..Len(MappingsJson[s]) : MappingsJson[s][k] = name
    THEN LET s == CHOOSE s \in 1..3 :
                     \E k \in 1..Len(MappingsJson[s]) : MappingsJson[s][k] = name
             k == CHOOSE k \in 1..Len(MappingsJson[s]) : MappingsJson[s][k] = name
         IN  HashTables[s][k]
    ELSE OtherHash

(***************************************************************************)
(* Models: CatboostModelStatic of the build.                               *)
(***************************************************************************)
NoCtrs == [UsedModelCtrsCount |-> 0, descriptors |-> <<>>]

\* one tree of depth 1 on slot 0 at threshold byte 1, leaves 10 and 20
ScenarioModel ==
    [name |-> "scenario",
     FloatFeatureCount |-> 6, CatFeatureCount |-> 3, BinaryFeatureCount |-> 1,
     TreeCount |-> 1,
     FloatFeatureBorders |-> <<<<2>>, <<>>, <<>>, <<>>, <<>>, <<>>>>,
     CatFeaturesIndex |-> <<1, 2, 3>>,
     OneHotCatFeatureIndex |-> <<>>, OneHotHashValues |-> <<>>,
     CtrFeatureBorders |-> <<>>, modelCtrs |-> NoCtrs,
     TreeDepth |-> <<1>>,
     TreeSplitIdxs |-> <<1>>, TreeSplitFeatureIndex |-> <<0>>, TreeSplitXorMask |-> <<0>>,
     LeafValues |-> <<<<10>>, <<20>>>>,
     Scale |-> 1, Biases |-> <<0>>]

\* two numeric slots (0: carat, 1: x), one-hot slots for cut (2) and
\* clarity (3), two trees of depth 2 and 3
MixedModel ==
    [name |-> "mixed",
     FloatFeatureCount |-> 6, CatFeatureCount |-> 3, BinaryFeatureCount |-> 4,
     TreeCount |-> 2,
     FloatFeatureBorders |-> <<<<2, 4, 6, 8, 10>>, <<>>, <<>>, <<3, 7>>, <<>>, <<>>>>,
     CatFeaturesIndex |-> <<1, 2, 3>>,
     OneHotCatFeatureIndex |-> <<1, 3>>,
     OneHotHashValues |->
        <<<<CalcCatFeatureHash("Good"), CalcCatFeatureHash("Ideal")>>,
          <<CalcCatFeatureHash("SI1"), CalcCatFeatureHash("IF"), CalcCatFeatureHash("I1")>>>>,
     CtrFeatureBorders |-> <<>>, modelCtrs |-> NoCtrs,
     TreeDepth |-> <<2, 3>>,
     TreeSplitIdxs |-> <<3, 1, 2, 2, 254>>,
     TreeSplitFeatureIndex |-> <<0, 2, 1, 3, 2>>,
     TreeSplitXorMask |-> <<0, 0, 0, 1, 255>>,
     LeafValues |-> <<<<1>>, <<2>>, <<3>>, <<4>>,
                      <<16>>, <<1>>, <<2>>, <<3>>, <<5>>, <<6>>, <<7>>, <<9>>>>,
     Scale |-> 2, Biases |-> <<1>>]

\* one numeric slot (0), a one-hot slot for color (1), two CTR slots (2, 3)
CtrModel ==
    [name |-> "ctr",
     FloatFeatureCount |-> 6, CatFeatureCount |-> 3, BinaryFeatureCount |-> 4,
     TreeCount |-> 2,
     FloatFeatureBorders |-> <<<<4>>, <<>>, <<>>, <<>>, <<>>, <<>>>>,
     CatFeaturesIndex |-> <<1, 2, 3>>,
     OneHotCatFeatureIndex |-> <<2>>,
     OneHotHashValues |->
        <<<<CalcCatFeatureHash("E"), CalcCatFeatureHash("J"),
            CalcCatFeatureHash("G"), CalcCatFeatureHash("D")>>>>,
     CtrFeatureBorders |-> <<<<2, 4>>, <<1>>>>,
     modelCtrs |->
        [UsedModelCtrsCount |-> 2,
         descriptors |->
           <<[binSlots |-> <<0>>, catSlots |-> <<0>>,
              table |-> (<< <<1>>, <<CalcCatFeatureHash("Ideal")>> >> :> 5)
                        @@ (<< <<0>>, <<CalcCatFeatureHash("Fair")>> >> :> 1),
              default |-> 3],
             [binSlots |-> <<0, 1>>, catSlots |-> <<2>>,
              table |-> (<< <<1, 4>>, <<CalcCatFeatureHash("IF")>> >> :> 2)
                        @@ (<< <<0, 1>>, <<CalcCatFeatureHash("SI2")>> >> :> 4),
              default |-> 0]>>],
     TreeDepth |-> <<1, 2>>,
     TreeSplitIdxs |-> <<2, 1, 1>>,
     TreeSplitFeatureIndex |-> <<2, 3, 1>>,
     TreeSplitXorMask |-> <<0, 0, 0>>,
     LeafValues |-> <<<<3>>, <<14>>, <<1>>, <<2>>, <<4>>, <<8>>>>,
     Scale |-> 1, Biases |-> <<2>>]

\* thirteen borders on carat, trees of depth 6, 5 and 1
DeepModel ==
    [name |-> "deep",
     FloatFeatureCount |-> 6, CatFeatureCount |-> 3, BinaryFeatureCount |-> 2,
     TreeCount |-> 3,
     FloatFeatureBorders |->
        <<<<2, 4, 6, 8, 10, 12, 14, 16, 18, 20, 22, 24, 26>>, <<>>, <<>>, <<3, 7>>, <<>>, <<>>>>,
     CatFeaturesIndex |-> <<1, 2, 3>>,
     OneHotCatFeatureIndex |-> <<>>, OneHotHashValues |-> <<>>,
     CtrFeatureBorders |-> <<>>, modelCtrs |-> NoCtrs,
     TreeDepth |-> <<6, 5, 1>>,
     TreeSplitIdxs |-> <<1, 2, 3, 1, 13, 2,   2, 1, 250, 3, 12,   3>>,
     TreeSplitFeatureIndex |-> <<0, 0, 0, 1, 0, 1,   1, 0, 0, 0, 0,   0>>,
     TreeSplitXorMask |-> <<0, 0, 0, 0, 0, 0,   0, 0, 255, 0, 0,   0>>,
     LeafValues |-> [p \in 1..98 |-> <<(p * 7) % 12>>],
     Scale |-> 1, Biases |-> <<0>>]

Models == {ScenarioModel, MixedModel, CtrModel, DeepModel}

ModelNames == {m.name : m \in Models}

\* the model of the build named n
ModelNamed(n) == CHOOSE m \in Models : m.name = n

\* binarized slots the binarization loops fill for a model
SlotCount(model) ==
    Cardinality({i \in 1..Len(model.FloatFeatureBorders) : Len(model.FloatFeatureBorders[i]) > 0})
    + Cardinality({i \in 1..Len(model.OneHotHashValues) : Len(model.OneHotHashValues[i]) > 0})
    + (IF model.modelCtrs.UsedModelCtrsCount > 0 THEN Len(model.CtrFeatureBorders) ELSE 0)

(***************************************************************************)
(* State.                                                                  *)
(***************************************************************************)
VARIABLES
    \* the scorer of the build (which wrapper was compiled), the name of its
    \* model, its thread-local binaryFeaturesBuffer, and the last call of
    \* catboostPredict
    variant, model, binaryFeaturesBuffer, last,
    \* numeric binarization of one feature: the model's border list for it,
    \* two raw values <<x, y>> with x <= y, and what the feature loop wrote
    binBorders, binValues, binResult,
    \* one-hot binarization of one feature: the hash in the feature's
    \* categorical slot, the feature's OneHotHashValues list, the byte written
    ohHash, ohValues, ohResult,
    \* tree evaluation over one binarized vector: the model's name, the
    \* vector, an order to visit the trees in, and what the evaluation gave
    treeModel, treeBin, treeOrder, treeResult,
    \* one run of catboostPredictAll: the flattened input, the number of
    \* samples, the output array, the loop counter i, the two vectors the loop
    \* reuses, and how the run stands
    inputData, numSamples, predictions, sampleIndex,
    reusedFloatFeatures, reusedCatFeatures, batchStatus,
    \* scoring calls taken stage by stage: the worker threads, the scorer of
    \* the build, the model and the lookup table all workers share, the
    \* instances of the thread-local scratch memory, and each worker's call
    workers, scorer, sharedModel, sharedTables, scratch, calls,
    \* two threads of one build given the same calls, except that the second
    \* is never given a call with featureCount # 9: the scorer and its model,
    \* each thread's buffer and last return value, and the calls made so far
    rjScorer, rjModel, rjWith, rjWithout, rjTrace,
    \* the JavaScript harness: the worker thread that scores the test data
    \* in batches, the main thread's promise with the events of its worker,
    \* and a run of a test-data loader
    batchWorker, parent, loader

mainVars == <<variant, model, binaryFeaturesBuffer, last>>

binVars == <<binBorders, binValues, binResult>>

ohVars == <<ohHash, ohValues, ohResult>>

treeVars == <<treeModel, treeBin, treeOrder, treeResult>>

batchVars ==
    <<inputData, numSamples, predictions, sampleIndex,
      reusedFloatFeatures, reusedCatFeatures, batchStatus>>

stageVars == <<workers, scorer, sharedModel, sharedTables, scratch, calls>>

rejectVars == <<rjScorer, rjModel, rjWith, rjWithout, rjTrace>>

jsVars == <<batchWorker, parent, loader>>

lateVars == <<rejectVars, jsVars>>

moreVars == <<batchVars, stageVars, lateVars>>

vars == <<mainVars, binVars, ohVars, treeVars, moreVars>>

\* the value of a call record before any call
NoCall ==
    [featureCount |-> 0, features |-> <<>>, status |-> "none", ret |-> 0,
     reads |-> {}, oob |-> FALSE, numeric |-> <<>>, catIndex |-> <<>>,
     names |-> <<>>, hashes |-> <<>>, slots |-> 0, stale |-> FALSE, bin |-> <<>>, leaves |-> <<>>, result |-> 0]

NoBin == [variant |-> "none", slots |-> 0, lo |-> 0, hi |-> 0]

NoOneHot == [variant |-> "none", slots |-> 0, byte |-> 0]

NoTrees ==
    [variant |-> "none", leaves |-> <<>>, result |-> 0, ret |-> 0,
     permLeaves |-> <<>>, permResult |-> 0, permRet |-> 0]

\* the batch entry point while it is not used
BatchIdle ==
    /\ inputData = <<>>
    /\ numSamples = 0
    /\ predictions = <<>>
    /\ sampleIndex = 0
    /\ reusedFloatFeatures = <<>>
    /\ reusedCatFeatures = <<>>
    /\ batchStatus = "none"

\* the stage-by-stage scorer while it is not used
StageIdle ==
    /\ workers = {}
    /\ scorer = "none"
    /\ sharedModel = "none"
    /\ sharedTables = <<>>
    /\ scratch = <<>>
    /\ calls = <<>>

\* the pair of threads while it is not used
RejectIdle ==
    /\ rjScorer = "none"
    /\ rjModel = "none"
    /\ rjWith = <<>>
    /\ rjWithout = <<>>
    /\ rjTrace = <<>>

\* the harness while it is not used
BatchWorkerIdle == batchWorker = <<>>

ParentIdle == parent = <<>>

LoaderIdle == loader = <<>>

JsIdle == BatchWorkerIdle /\ ParentIdle /\ LoaderIdle

LateIdle == RejectIdle /\ JsIdle

MoreIdle == BatchIdle /\ StageIdle /\ LateIdle

\* the main variables while a stage is exercised on its own
MainIdle ==
    /\ variant = "none"
    /\ model = "none"
    /\ binaryFeaturesBuffer = <<>>
    /\ last = NoCall

\* the binarization harness while it is not used
BinIdle ==
    /\ binBorders = <<>>
    /\ binValues = <<0, 0>>
    /\ binResult = NoBin

\* the one-hot harness while it is not used
OneHotIdle ==
    /\ ohHash = 0
    /\ ohValues = <<>>
    /\ ohResult = NoOneHot

\* the tree harness while it is not used
TreeIdle ==
    /\ treeModel = "none"
    /\ treeBin = <<>>
    /\ treeOrder = <<>>
    /\ treeResult = NoTrees

(***************************************************************************)
(* Numeric binarization of one feature slot, run on two raw values.        *)
(***************************************************************************)
\* border values and raw values, in halves: 1.0, 2.0 and 1.0, 2.0, 2.5
BorderVals == {2, 4}
FeatureVals == {2, 4, 5}

\* border lists longer than an unsigned char can count
LongLens == {ByteMod - 1, ByteMod}

\* n borders, the first k of them 1.0 and the rest 2.0
Stair(n, k) == [i \in 1..n |-> IF i <= k THEN 2 ELSE 4]

BorderLists ==
    UNION {[1..n -> BorderVals] : n \in 0..MaxBorders}
    \cup {Stair(n, n) : n \in LongLens} \cup {Stair(n, n - 1) : n \in LongLens}

ValuePairs == {<<2, 4>>, <<4, 5>>, <<2, 5>>}

InitBin ==
    /\ MainIdle
    /\ OneHotIdle
    /\ TreeIdle
    /\ MoreIdle
    /\ binBorders \in BorderLists
    /\ binValues \in ValuePairs
    /\ binResult = NoBin

\* one pass of the float-feature loop of variant v over a cleared buffer:
\*   if (!borders.empty()) { ...; ++binFeatureIndex; }
BinarizeOneFeature(v) ==
    /\ binResult.variant = "none"
    /\ binResult' =
         IF Len(binBorders) = 0
         THEN [variant |-> v, slots |-> 0, lo |-> 0, hi |-> 0]
         ELSE [variant |-> v, slots |-> 1,
               lo |-> BinarizeFloat(v, 0, binValues[1], binBorders),
               hi |-> BinarizeFloat(v, 0, binValues[2], binBorders)]
    /\ UNCHANGED <<binBorders, binValues, mainVars, ohVars, treeVars, moreVars>>

BinarizeMemory == BinarizeOneFeature("memory")
BinarizeCategorical == BinarizeOneFeature("categorical")
BinarizeSimd == BinarizeOneFeature("simd")
BinarizeFully == BinarizeOneFeature("fully")

NextBin ==
    \/ BinarizeMemory
    \/ BinarizeCategorical
    \/ BinarizeSimd
    \/ BinarizeFully

SpecBin == InitBin /\ [][NextBin]_vars

\* number of borders strictly less than x
CountLess(x, bs) == Cardinality({k \in 1..Len(bs) : bs[k] < x})

\* C3 as stated: for every non-empty border list the byte written is the
\* number of borders strictly less than the raw value, whatever the length
\* of the list, in every variant.
C3_AnyLength ==
    (binResult.variant # "none" /\ Len(binBorders) > 0) =>
        /\ binResult.lo = CountLess(binValues[1], binBorders)
        /\ binResult.hi = CountLess(binValues[2], binBorders)

\* C3 amended: every variant compares every border exactly once, so the byte
\* written is the number of borders strictly less than the raw value reduced
\* modulo 256, which is that number for every list of at most 255 borders;
\* a feature with an empty list consumes no slot.
C3_CountModuloByte ==
    binResult.variant # "none" =>
        /\ binResult.slots = (IF Len(binBorders) > 0 THEN 1 ELSE 0)
        /\ Len(binBorders) > 0 =>
             /\ binResult.lo = CountLess(binValues[1], binBorders) % ByteMod
             /\ binResult.hi = CountLess(binValues[2], binBorders) % ByteMod
        /\ (Len(binBorders) > 0 /\ Len(binBorders) < ByteMod) =>
             /\ binResult.lo = CountLess(binValues[1], binBorders)
             /\ binResult.hi = CountLess(binValues[2], binBorders)

\* the fully-optimized variant has run its 8-wide loop, its masked 4-wide
\* remainder and its scalar tail over one list of thirteen borders, and
\* counted some of them for one value and all of them for the other
C3_Witness ==
    /\ binResult.variant = "fully"
    /\ Len(binBorders) = 13
    /\ binResult.lo > 0
    /\ binResult.lo < binResult.hi
    /\ binResult.hi = 13

\* C8 as stated: for a fixed border list and raw values x <= y the byte for
\* x is never greater than the byte for y, in every variant.
C8_Monotone ==
    binResult.variant # "none" => binResult.lo <= binResult.hi

\* C8 amended: the same, for a border list of at most 255 borders.
C8_MonotoneUpTo255 ==
    (binResult.variant # "none" /\ Len(binBorders) < ByteMod) =>
        binResult.lo <= binResult.hi

\* a variant has binarized two different raw values over one list and the
\* larger value got the strictly larger byte
C8_Witness ==
    /\ binResult.variant \in OptVariants
    /\ binValues[1] < binValues[2]
    /\ Len(binBorders) \in 1..(ByteMod - 1)
    /\ binResult.lo < binResult.hi

(***************************************************************************)
(* The entry points.  One build holds one catboostPredict; a call gets a   *)
(* float array and its length as featureCount.                             *)
(***************************************************************************)
\* raw values of carat, depth and x, in halves
NumericPairs == {<<1, 8, 3>>, <<5, 8, 8>>, <<27, 11, 8>>}

\* raw values of cut, color, clarity, in halves: indices (0,0,0), (2,3,1),
\* (4,6,7); one slot below or above its range; (4.5, 6.5, 7.5)
CatTriples ==
    {<<0, 0, 0>>, <<4, 6, 2>>, <<8, 12, 14>>,
     <<-2, 0, 0>>, <<10, 0, 0>>, <<0, 14, 0>>, <<0, 0, 16>>,
     <<9, 13, 15>>}

\* carat, depth, table, x, y, z, cut, color, clarity
Records ==
    {<<n[1], n[2], 12, n[3], 14, 15, c[1], c[2], c[3]>> : n \in NumericPairs, c \in CatTriples}

\* arrays one feature short and one feature long
ShortInputs == {<<5, 11, 12, 8, 14, 15, 0, 0>>}
LongInputs == {<<5, 11, 12, 8, 14, 15, 0, 0, 0, 0>>}

Inputs == Records \cup ShortInputs \cup LongInputs

\* what a read past the end of the features array or of a mapping table can
\* yield: any float, any string
OobFloats == {0, 100}
OobNames == {"garbage", "Good", "SI1"}

ZeroBuffer(v) == [o \in 0..(Capacity(v) - 1) |-> 0]

\* return -1.0f before anything else is done
Rejected(features) ==
    [NoCall EXCEPT !.featureCount = Len(features), !.features = features,
                   !.status = "returned", !.ret = -1]

\* a rejection that comes after the clearing of the buffer
EarlyReturnAfterClear(v, buf, m, features) ==
    [buf |-> ClearBuffer(v, buf, m), call |-> Rejected(features)]

\* if (featureCount != 9) { return -1.0f; } as the first statement of
\* catboostPredict: the buffer as the call found it
EarlyReturn(v, buf, m, features) ==
    [buf |-> buf, call |-> Rejected(features)]

\* positions of the array a hand-optimized variant reads in a 9-feature call
OptimizedReads(v, m) ==
    IF v \in {"memory", "simd"} THEN 0..8
    ELSE {i \in 0..5 : Len(m.FloatFeatureBorders[i + 1]) > 0} \cup {6, 7, 8}

\* catboostPredict of a hand-optimized variant: the buffer and the call record
OptimizedPredict(v, buf, m, features) ==
    IF Len(features) # 9
    THEN EarlyReturn(v, buf, m, features)
    ELSE LET hashes == DirectHashes(features)
             st == Binarize(v, buf, hashes, features, m)
             ts == TreeLoop(v, TreeLoopStart, st.buf, m, 0)
         IN  [buf  |-> st.buf,
              call |-> [featureCount |-> 9, features |-> features,
                        status |-> "returned", ret |-> FinalScore(m, ts.result),
                        reads |-> OptimizedReads(v, m), oob |-> FALSE,
                        numeric |-> SubSeq(features, 1, 6),
                        catIndex |-> [s \in 1..3 |-> StaticCastInt(features[6 + s])],
                        names |-> <<>>, hashes |-> hashes, slots |-> st.idx,
                        stale |-> \E k \in 0..(m.BinaryFeatureCount - 1) :
                                     buf[k] # 0 /\ buf[k] # st.buf[k],
                        bin |-> Snapshot(st.buf, m),
                        leaves |-> ts.leaves, result |-> ts.result]]

\* ApplyCatboostModel(floatFeatures, catFeatures): hash the strings, binarize
\* into a fresh zeroed vector, evaluate the trees; the score is a double
ApplyCatboostModel(floatFeatures, catFeatures, m) ==
    LET hashes == [s \in 1..3 |-> CalcCatFeatureHash(catFeatures[s])]
        st == Binarize("memory", ZeroBuffer("memory"), hashes, floatFeatures, m)
        ts == TreeLoop("memory", TreeLoopStart, st.buf, m, 0)
    IN  [ret |-> DAdd(DMul(m.Scale, ts.result), m.Biases[1]),
         floatFeatures |-> floatFeatures, catFeatures |-> catFeatures, hashes |-> hashes, slots |-> st.idx, bin |-> Snapshot(st.buf, m),
         leaves |-> ts.leaves, result |-> ts.result]

\* the call record of a wrapper that handed floatFeatures and catFeatures to
\* ApplyCatboostModel and returned ret
WrapperCall(features, reads, oob, catIndex, applied, ret) ==
    [featureCount |-> Len(features), features |-> features,
     status |-> "returned", ret |-> ret, reads |-> reads, oob |-> oob,
     numeric |-> applied.floatFeatures, catIndex |-> catIndex,
     names |-> applied.catFeatures, hashes |-> applied.hashes, slots |-> applied.slots,
     stale |-> FALSE, bin |-> applied.bin, leaves |-> applied.leaves, result |-> applied.result]

\* the call record of a call that read out of bounds and trapped
Crashed(features, reads, catIndex) ==
    [NoCall EXCEPT !.featureCount = Len(features), !.features = features,
                   !.status = "crashed", !.reads = reads, !.oob = TRUE,
                   !.catIndex = catIndex]

\* features[i] of the C++ array, or any float when i is past its end
ReadFeature(features, i) ==
    IF i < Len(features) THEN {features[i + 1]} ELSE OobFloats

\* TABLE[idx] without a bounds check: the name, or any string
UncheckedName(table, idx) ==
    IF idx >= 0 /\ idx < Len(table) THEN {table[idx + 1]} ELSE OobNames

InRange(slot, idx) == idx >= 0 /\ idx < Len(HashTables[slot + 1])

\* baseline_wrapper.cpp: featureCount check, bounds check, "Unknown"
BaselinePredict(m, features) ==
    IF Len(features) # 9 THEN {Rejected(features)}
    ELSE LET catIndex == [s \in 1..3 |-> StaticCastInt(features[6 + s])]
             names == [s \in 1..3 |-> IF InRange(s - 1, catIndex[s])
                                      THEN MappingsJson[s][catIndex[s] + 1]
                                      ELSE "Unknown"]
             applied == ApplyCatboostModel(SubSeq(features, 1, 6), names, m)
         IN  {WrapperCall(features, 0..8, FALSE, catIndex, applied, ToFloat(applied.ret))}

\* the wrapper with alternative single sample interface: featureCount check,
\* CUT_MAPPING / COLOR_MAPPING / CLARITY_MAPPING indexed without a bounds check
BatchSinglePredict(m, features) ==
    IF Len(features) # 9 THEN {Rejected(features)}
    ELSE LET catIndex == [s \in 1..3 |-> StaticCastInt(features[6 + s])]
             oob == \E s \in 1..3 : ~InRange(s - 1, catIndex[s])
         IN  {LET applied == ApplyCatboostModel(SubSeq(features, 1, 6), <<n1, n2, n3>>, m)
              IN  WrapperCall(features, 0..8, oob, catIndex, applied, applied.ret) :
                  n1 \in UncheckedName(CUT_MAPPING, catIndex[1]),
                  n2 \in UncheckedName(COLOR_MAPPING, catIndex[2]),
                  n3 \in UncheckedName(CLARITY_MAPPING, catIndex[3])}
             \cup (IF oob THEN {Crashed(features, 0..8, catIndex)} ELSE {})

\* the wrapper in training-column order: no featureCount check, numeric
\* features from positions 0, 4..8, categorical indices from positions 1..3,
\* mapping tables indexed without a bounds check
LegacyPredict(m, features) ==
    LET short == Len(features) < 9
        catIndex == [s \in 1..3 |-> StaticCastInt(features[s + 1])]
        oob == short \/ \E s \in 1..3 : ~InRange(s - 1, catIndex[s])
    IN  {LET applied == ApplyCatboostModel(<<features[1], features[5], features[6],
                                             features[7], features[8], z>>, <<n1, n2, n3>>, m)
         IN  WrapperCall(features, 0..8, oob, catIndex, applied, ToFloat(applied.ret)) :
             z \in ReadFeature(features, 8),
             n1 \in UncheckedName(CUT_MAPPING, catIndex[1]),
             n2 \in UncheckedName(COLOR_MAPPING, catIndex[2]),
             n3 \in UncheckedName(CLARITY_MAPPING, catIndex[3])}
        \cup (IF oob THEN {Crashed(features, 0..8, catIndex)} ELSE {})

\* the wrapper compile_wasm.js generates: no featureCount check, std::round,
\* bounds check with the defaults "Good", "G", "SI1"
GeneratedDefaults == <<"Good", "G", "SI1">>

GeneratedPredict(m, features) ==
    LET short == Len(features) < 9
    IN  {LET raw == <<features[7], features[8], r9>>
             catIndex == [s \in 1..3 |-> StdRound(raw[s])]
             names == [s \in 1..3 |-> IF InRange(s - 1, catIndex[s])
                                      THEN MappingsJson[s][catIndex[s] + 1]
                                      ELSE GeneratedDefaults[s]]
             applied == ApplyCatboostModel(SubSeq(features, 1, 6), names, m)
         IN  WrapperCall(features, 0..8, short, catIndex, applied, applied.ret) :
             r9 \in ReadFeature(features, 8)}
        \cup (IF short THEN {Crashed(features, 0..8, <<>>)} ELSE {})

(***************************************************************************)
(* The scoring program.                                                    *)
(***************************************************************************)
StringVariants == {"baseline", "batch", "legacy", "generated"}

Init ==
    /\ variant \in OptVariants \cup StringVariants
    /\ model \in ModelNames
    /\ binaryFeaturesBuffer =
         IF variant \in OptVariants THEN ZeroBuffer(variant) ELSE <<>>
    /\ last = NoCall
    /\ BinIdle
    /\ OneHotIdle
    /\ TreeIdle
    /\ MoreIdle

\* a call of catboostPredict of a hand-optimized build
PredictWith(v) ==
    /\ variant = v
    /\ \E features \in Inputs :
         LET o == OptimizedPredict(v, binaryFeaturesBuffer, ModelNamed(model), features)
         IN  /\ binaryFeaturesBuffer' = o.buf
             /\ last' = o.call
    /\ UNCHANGED <<variant, model, binVars, ohVars, treeVars, moreVars>>

PredictMemory == PredictWith("memory")
PredictCategorical == PredictWith("categorical")
PredictSimd == PredictWith("simd")
PredictFully == PredictWith("fully")

PredictBaseline ==
    /\ variant = "baseline"
    /\ \E features \in Inputs : last' \in BaselinePredict(ModelNamed(model), features)
    /\ UNCHANGED <<variant, model, binaryFeaturesBuffer, binVars, ohVars, treeVars, moreVars>>

PredictBatchSingle ==
    /\ variant = "batch"
    /\ \E features \in Inputs : last' \in BatchSinglePredict(ModelNamed(model), features)
    /\ UNCHANGED <<variant, model, binaryFeaturesBuffer, binVars, ohVars, treeVars, moreVars>>

PredictLegacy ==
    /\ variant = "legacy"
    /\ \E features \in Inputs : last' \in LegacyPredict(ModelNamed(model), features)
    /\ UNCHANGED <<variant, model, binaryFeaturesBuffer, binVars, ohVars, treeVars, moreVars>>

PredictGenerated ==
    /\ variant = "generated"
    /\ \E features \in Inputs : last' \in GeneratedPredict(ModelNamed(model), features)
    /\ UNCHANGED <<variant, model, binaryFeaturesBuffer, binVars, ohVars, treeVars, moreVars>>

Next ==
    \/ PredictMemory
    \/ PredictCategorical
    \/ PredictSimd
    \/ PredictFully
    \/ PredictBaseline
    \/ PredictBatchSingle
    \/ PredictLegacy
    \/ PredictGenerated

Spec == Init /\ [][Next]_vars

(***************************************************************************)
(* Properties of the scoring program.                                      *)
(***************************************************************************)
\* the last call was a completed call on a 9-feature record
ValidCall == last.status = "returned" /\ last.featureCount = 9

\* value of treeSplitsIdx, and offset of leafValuesPtr, when the tree loop
\* reaches tree treeId (0-based): the depths, and the 2^depth leaf blocks, of
\* the trees before it
RECURSIVE SplitsStart(_, _)
SplitsStart(m, treeId) ==
    IF treeId = 0 THEN 0 ELSE SplitsStart(m, treeId - 1) + m.TreeDepth[treeId]

RECURSIVE LeafStart(_, _)
LeafStart(m, treeId) ==
    IF treeId = 0 THEN 0 ELSE LeafStart(m, treeId - 1) + Pow2(m.TreeDepth[treeId])

\* bitwise exclusive or of two bytes, bit by bit
RefXor(a, b) ==
    LET bit(x, k) == (x \div Pow2(k)) % 2
        w(k) == IF bit(a, k) # bit(b, k) THEN Pow2(k) ELSE 0
    IN  w(0) + w(1) + w(2) + w(3) + w(4) + w(5) + w(6) + w(7)

\* bit d of the leaf index of tree treeId over the binarized vector bin
\* (a sequence: bin[k + 1] is slot k)
RefBit(m, bin, treeId, d) ==
    LET k == SplitsStart(m, treeId) + d + 1
    IN  IF RefXor(bin[m.TreeSplitFeatureIndex[k] + 1], m.TreeSplitXorMask[k])
             >= m.TreeSplitIdxs[k]
        THEN 1 ELSE 0

RECURSIVE RefIndexFrom(_, _, _, _)
RefIndexFrom(m, bin, treeId, d) ==
    IF d >= m.TreeDepth[treeId + 1] THEN 0
    ELSE RefBit(m, bin, treeId, d) * Pow2(d) + RefIndexFrom(m, bin, treeId, d + 1)

RefIndex(m, bin, treeId) == RefIndexFrom(m, bin, treeId, 0)

\* first element of the value vector of the leaf tree treeId selects
RefLeafValue(m, bin, treeId) ==
    m.LeafValues[LeafStart(m, treeId) + RefIndex(m, bin, treeId) + 1][1]

\* the double sum of the selected leaf values of trees 0 .. n-1, in tree order
RECURSIVE RefSum(_, _, _)
RefSum(m, bin, n) ==
    IF n = 0 THEN 0 ELSE DAdd(RefSum(m, bin, n - 1), RefLeafValue(m, bin, n - 1))

\* C1: for every valid record the four hand-optimized scorers compute the
\* same binarized feature vector and return the same score: whatever variant
\* the build holds, each of the four, run on the record of the last call,
\* yields the vector and the score that call produced.
C1_VariantsAgree ==
    (variant \in OptVariants /\ ValidCall) =>
        \A w \in OptVariants :
            LET o == OptimizedPredict(w, ZeroBuffer(w), ModelNamed(model), last.features)
            IN  /\ o.call.bin = last.bin
                /\ o.call.ret = last.ret

\* the fully-optimized build has scored a record over thirteen borders (8-wide
\* loop, masked remainder, scalar tail) and counted all of them
C1_Witness ==
    /\ variant = "fully"
    /\ ValidCall
    /\ model = "deep"
    /\ last.bin[1] = 13

\* C2: every single-record entry point returns -1.0 whenever featureCount is
\* not 9, without reading any feature value and without crashing.
C2_RejectsWrongCount ==
    (last.status # "none" /\ last.featureCount # 9) =>
        /\ last.status = "returned"
        /\ last.ret = -1
        /\ last.reads = {}
        /\ ~last.oob

\* one-hot features of a model that depend on categorical slot s (1..3), as
\* positions of OneHotCatFeatureIndex
OneHotOn(m, s) ==
    {i \in 1..Len(m.OneHotCatFeatureIndex) :
        PackedIndex(m, m.OneHotCatFeatureIndex[i]) = s - 1}

\* slot of the binarized vector that one-hot feature i fills
OneHotSlot(m, i) ==
    Cardinality({f \in 1..Len(m.FloatFeatureBorders) : Len(m.FloatFeatureBorders[f]) > 0})
    + Cardinality({j \in 1..(i - 1) : Len(m.OneHotHashValues[j]) > 0})

RealHashes == UNION {{HashTables[s][k] : k \in 1..Len(HashTables[s])} : s \in 1..3}

\* C4: in every entry point a categorical index that is negative or >= the
\* slot's category count is replaced by a sentinel that matches no real
\* category hash (0x7FFFFFFF in the hash-table variants), every one-hot
\* feature of that slot binarizes to 0, and no out-of-bounds read occurs.
C4_FailsClosed ==
    (last.status # "none" /\ last.featureCount = 9) =>
        \A s \in 1..3 :
            ~InRange(s - 1, last.catIndex[s]) =>
                /\ last.status = "returned"
                /\ ~last.oob
                /\ last.hashes[s] \notin RealHashes
                /\ variant \in OptVariants => last.hashes[s] = SentinelHash
                /\ \A i \in OneHotOn(ModelNamed(model), s) :
                       last.bin[OneHotSlot(ModelNamed(model), i) + 1] = 0

\* C7: the score of a valid record is scale * (sum over all trees of the
\* first element of the selected leaf's value vector) + bias[0]; each tree
\* contributes exactly once, scale and bias are applied once, after the last
\* tree.
C7_ScoreIsScaledSum ==
    (variant \in OptVariants /\ ValidCall) =>
        LET m == ModelNamed(model)
        IN  /\ Len(last.leaves) = m.TreeCount
            /\ \A t \in 1..m.TreeCount : last.leaves[t].tree = t - 1
            /\ last.result = RefSum(m, last.bin, m.TreeCount)
            /\ last.ret = ToFloat(DAdd(DMul(m.Scale, RefSum(m, last.bin, m.TreeCount)),
                                       m.Biases[1]))

\* a build has scored a record over two trees with scale 2 and bias 1
C7_Witness ==
    /\ variant \in OptVariants
    /\ ValidCall
    /\ model = "mixed"
    /\ Len(last.leaves) = 2
    /\ last.ret # last.result

\* C9: after any sequence of earlier calls the binarized feature vector
\* computed for a record, and its score, equal those computed for it from an
\* all-zero buffer.
C9_NoCarryOver ==
    (variant \in OptVariants /\ ValidCall) =>
        LET o == OptimizedPredict(variant, ZeroBuffer(variant), ModelNamed(model),
                                  last.features)
        IN  /\ o.call.bin = last.bin
            /\ o.call.ret = last.ret
            /\ o.buf = binaryFeaturesBuffer

\* the memory-optimized build, which accumulates into the buffer, has scored a
\* record over a buffer that an earlier record had filled differently
C9_Witness ==
    /\ variant = "memory"
    /\ ValidCall
    /\ last.stale
    /\ \E k \in 1..Len(last.bin) : last.bin[k] # 0

\* C17: every entry point takes carat, depth, table, x, y, z from positions
\* 0-5 of the record and the indices of cut, color, clarity from positions 6,
\* 7 and 8 (converted by static_cast or by std::round)
C17_ReadsDocumentedPositions ==
    ValidCall =>
       /\ last.numeric = SubSeq(last.features, 1, 6)
       /\ \A s \in 1..3 :
             last.catIndex[s] \in {StaticCastInt(last.features[6 + s]),
                                    StdRound(last.features[6 + s])}

\* C18: in every variant index k of cut, color and clarity denotes the
\* category the README assigns to k: a wrapper that decodes to strings
\* hands that category's name to the model, and a hash-table variant uses
\* that category's hash
C18_DecodesAsReadme ==
    ValidCall /\ (\A s \in 1..3 : InRange(s - 1, last.catIndex[s])) =>
       \A s \in 1..3 :
          LET category == ReadmeMappings[s][last.catIndex[s] + 1]
          IN  /\ last.names # <<>> => last.names[s] = category
              /\ last.hashes[s] = CalcCatFeatureHash(category)

(***************************************************************************)
(* One-hot binarization on its own: one feature's hash list, one hash.     *)
(***************************************************************************)
\* longest hash list drawn
MaxHashes == 4

\* hashes a list is drawn from, and hashes a categorical slot can hold: a
\* category of the list's feature, a category no entry names, the sentinel
ListHashes == {CUT_HASHES[1], CUT_HASHES[3], COLOR_HASHES[1]}

SlotHashes == ListHashes \cup {CUT_HASHES[2], SentinelHash}

InitOneHot ==
    /\ MainIdle
    /\ BinIdle
    /\ TreeIdle
    /\ MoreIdle
    /\ ohHash \in SlotHashes
    /\ ohValues \in UNION {[1..n -> ListHashes] : n \in 0..MaxHashes}
    /\ ohResult = NoOneHot

\* one pass of the one-hot loop of variant v over a cleared buffer:
\*   if (!values.empty()) { ...; ++binFeatureIndex; }
BinarizeOneHotFeature(v) ==
    /\ ohResult.variant = "none"
    /\ ohResult' =
         IF Len(ohValues) = 0
         THEN [variant |-> v, slots |-> 0, byte |-> 0]
         ELSE [variant |-> v, slots |-> 1, byte |-> BinarizeOneHot(v, 0, ohHash, ohValues)]
    /\ UNCHANGED <<ohHash, ohValues, mainVars, binVars, treeVars, moreVars>>

OneHotMemory == BinarizeOneHotFeature("memory")
OneHotCategorical == BinarizeOneHotFeature("categorical")
OneHotSimd == BinarizeOneHotFeature("simd")
OneHotFully == BinarizeOneHotFeature("fully")

NextOneHot ==
    \/ OneHotMemory
    \/ OneHotCategorical
    \/ OneHotSimd
    \/ OneHotFully

SpecOneHot == InitOneHot /\ [][NextOneHot]_vars

\* the 1-based positions of the entries of a list that equal a hash
Matches(h, values) == {k \in 1..Len(values) : values[k] = h}

\* the 1-based position of the first entry equal to the hash, 0 if none
FirstMatch(h, values) ==
    IF Matches(h, values) = {} THEN 0
    ELSE CHOOSE k \in Matches(h, values) : \A j \in Matches(h, values) : k <= j

\* the bitwise OR of a set of bytes, bit by bit
OrOfAll(S) ==
    LET w(k) == IF \E p \in S : (p \div Pow2(k)) % 2 = 1 THEN Pow2(k) ELSE 0
    IN  w(0) + w(1) + w(2) + w(3) + w(4) + w(5) + w(6) + w(7)

RECURSIVE SumOfAll(_)
SumOfAll(S) ==
    IF S = {} THEN 0 ELSE LET p == CHOOSE q \in S : TRUE IN p + SumOfAll(S \ {p})

\* C5 as stated: for each one-hot feature the byte written is the 1-based
\* position of the first entry of its hash list that equals the slot's hash,
\* or 0 if none matches.
C5_FirstMatch ==
    (ohResult.variant # "none" /\ Len(ohValues) > 0) =>
        ohResult.byte = FirstMatch(ohHash, ohValues)

\* C5 amended: the byte written is the bitwise OR of the 1-based positions
\* of all entries equal to the slot's hash (their sum in the fully-optimized
\* variant when the list has 2 or 3 entries); it is 0 when none matches, the
\* position of the match when exactly one entry matches, in particular the
\* position of the first match when the list repeats no entry; a feature
\* with an empty list consumes no slot.
C5_OrOfMatches ==
    ohResult.variant # "none" =>
        LET hits == Matches(ohHash, ohValues)
        IN  /\ ohResult.slots = (IF Len(ohValues) > 0 THEN 1 ELSE 0)
            /\ Len(ohValues) > 0 =>
                 /\ ohResult.byte =
                      IF ohResult.variant = "fully" /\ Len(ohValues) \in {2, 3}
                      THEN SumOfAll(hits)
                      ELSE OrOfAll(hits)
                 /\ Cardinality(hits) <= 1 => ohResult.byte = FirstMatch(ohHash, ohValues)

\* a variant has found the slot's hash at the third place of a list that
\* names it once
C5_Witness ==
    /\ ohResult.variant \in OptVariants
    /\ Len(ohValues) >= 3
    /\ Matches(ohHash, ohValues) = {3}
    /\ ohResult.byte = 3


\* C25 as stated: for hash lists of length 2 and 3 the sum of the matching
\* ordinals that the fully-optimized variant computes is the byte the
\* bitwise-OR loop of the other variants computes, for every hash and every
\* list, lists with repeated entries included.
C25_SumEqualsOr ==
    (ohResult.variant = "fully" /\ Len(ohValues) \in {2, 3}) =>
        ohResult.byte = OrOfAll(Matches(ohHash, ohValues))

\* C25 amended: the sum is the byte of the OR loop for every list of length
\* 2, repeated entries included (1 + 2 = 1 | 2), and for a list of length 3
\* exactly when the third entry is not a second or third match: with
\* matches at places 1 and 3, 2 and 3, or 1, 2 and 3 the sum is 4, 5 or 6
\* and the OR is 3.
C25_SumEqualsOrUnlessThirdRepeats ==
    (ohResult.variant = "fully" /\ Len(ohValues) \in {2, 3}) =>
        LET hits == Matches(ohHash, ohValues)
        IN  /\ (ohResult.byte = OrOfAll(hits)) <=> ~(3 \in hits /\ Cardinality(hits) >= 2)
            /\ (3 \in hits /\ Cardinality(hits) >= 2) =>
                   (ohResult.byte \in {4, 5, 6} /\ OrOfAll(hits) = 3)

\* the fully-optimized variant has summed the ordinals of a list of three
\* entries whose first two both equal the slot's hash
C25_Witness ==
    /\ ohResult.variant = "fully"
    /\ Len(ohValues) = 3
    /\ Matches(ohHash, ohValues) = {1, 2}
    /\ ohResult.byte = 3

(***************************************************************************)
(* Tree evaluation on its own: one model's forest, one binarized vector.   *)
(***************************************************************************)
\* bytes a slot of the vector is drawn from
TreeByteVals == {0, 1, 2, 3, 13, 128, 255}

\* the orders in which n trees can be visited
Orders(n) == {o \in [1..n -> 0..(n - 1)] : \A i, j \in 1..n : o[i] = o[j] => i = j}

InitTree ==
    /\ MainIdle
    /\ BinIdle
    /\ OneHotIdle
    /\ MoreIdle
    /\ treeModel \in ModelNames
    /\ treeBin \in [0..(ModelNamed(treeModel).BinaryFeatureCount - 1) -> TreeByteVals]
    /\ treeOrder \in Orders(ModelNamed(treeModel).TreeCount)
    /\ treeResult = NoTrees

\* the body of the tree loop for tree treeId alone, entered with the split
\* offset and the leaf pointer the loop has when it reaches that tree
TreeAlone(v, ts, buf, m, treeId) ==
    TreeStep(v, [ts EXCEPT !.leafPtr = LeafStart(m, treeId),
                           !.splitsIdx = SplitsStart(m, treeId)],
             buf, m, treeId)

\* the trees of order[k + 1 ..], each evaluated alone
RECURSIVE OrderedTreeLoop(_, _, _, _, _, _)
OrderedTreeLoop(v, ts, buf, m, order, k) ==
    IF k >= Len(order) THEN ts
    ELSE OrderedTreeLoop(v, TreeAlone(v, ts, buf, m, order[k + 1]), buf, m, order, k + 1)

\* the tree loop and the final scaling of variant v over the vector, and the
\* same with the trees visited in treeOrder
EvaluateTrees(v) ==
    /\ treeResult.variant = "none"
    /\ LET m  == ModelNamed(treeModel)
           ts == TreeLoop(v, TreeLoopStart, treeBin, m, 0)
           ps == OrderedTreeLoop(v, TreeLoopStart, treeBin, m, treeOrder, 0)
       IN  treeResult' =
             [variant |-> v, leaves |-> ts.leaves, result |-> ts.result,
              ret |-> FinalScore(m, ts.result),
              permLeaves |-> ps.leaves, permResult |-> ps.result,
              permRet |-> FinalScore(m, ps.result)]
    /\ UNCHANGED <<treeModel, treeBin, treeOrder, mainVars, binVars, ohVars, moreVars>>

EvaluateTreesMemory == EvaluateTrees("memory")
EvaluateTreesCategorical == EvaluateTrees("categorical")
EvaluateTreesSimd == EvaluateTrees("simd")
EvaluateTreesFully == EvaluateTrees("fully")

NextTree ==
    \/ EvaluateTreesMemory
    \/ EvaluateTreesCategorical
    \/ EvaluateTreesSimd
    \/ EvaluateTreesFully

SpecTree == InitTree /\ [][NextTree]_vars

\* the vector as a sequence: slot k at position k + 1
TreeBinSeq == [k \in 1..ModelNamed(treeModel).BinaryFeatureCount |-> treeBin[k - 1]]

\* C6: for every tree and every binarized vector the leaf selected is
\* leafValues[index] of the tree's block, where bit d of index is 1 exactly
\* when (binarized[featureIndex_d] XOR xorMask_d) >= splitThreshold_d, the
\* bytes compared unsigned and the threshold included; in the depth-1
\* scenario (slot 0, threshold 1, leaves 10 and 20, scale 1, bias 0) byte 0
\* scores 10 and every byte >= 1 scores 20.
C6_LeafIndexBits ==
    treeResult.variant # "none" =>
        LET m == ModelNamed(treeModel)
        IN  /\ Len(treeResult.leaves) = m.TreeCount
            /\ \A t \in 1..m.TreeCount :
                   /\ treeResult.leaves[t].tree = t - 1
                   /\ treeResult.leaves[t].index = RefIndex(m, TreeBinSeq, t - 1)
                   /\ treeResult.leaves[t].leaf =
                        LeafStart(m, t - 1) + RefIndex(m, TreeBinSeq, t - 1)
            /\ treeModel = "scenario" =>
                   treeResult.ret = (IF treeBin[0] = 0 THEN 10 ELSE 20)

\* the scenario tree has been evaluated on byte 128, at or above the
\* threshold only as an unsigned byte, and scored 20
C6_Witness ==
    /\ treeResult.variant \in OptVariants
    /\ treeModel = "scenario"
    /\ treeBin[0] = 128
    /\ treeResult.ret = 20

\* the leaves a trace selected, as a set of [tree, index, leaf]
LeafSet(leaves) == {leaves[k] : k \in 1..Len(leaves)}

\* the sum of the selected leaf values as a real number, without rounding
RECURSIVE ExactSum(_, _, _)
ExactSum(m, leaves, k) ==
    IF k = 0 THEN 0 ELSE ExactSum(m, leaves, k - 1) + m.LeafValues[leaves[k].leaf + 1][1]

\* C10 as stated: evaluating the trees in any order, each with its own split
\* offset and leaf block, yields the same sum, hence the same score.
C10_SameSumAnyOrder ==
    treeResult.variant # "none" =>
        /\ LeafSet(treeResult.permLeaves) = LeafSet(treeResult.leaves)
        /\ treeResult.permResult = treeResult.result
        /\ treeResult.permRet = treeResult.ret

\* C10 amended: evaluating the trees in any order, each with its own split
\* offset and leaf block, selects the same leaf of every tree, so the
\* selected values are the same and their sum as real numbers is the same;
\* the running double sum, and the score with it, is the same whenever
\* neither order rounds (both running sums equal the real sum).
C10_SameLeavesAnyOrder ==
    treeResult.variant # "none" =>
        LET m     == ModelNamed(treeModel)
            exact == ExactSum(m, treeResult.leaves, Len(treeResult.leaves))
        IN  /\ Len(treeResult.permLeaves) = m.TreeCount
            /\ \A k \in 1..m.TreeCount : treeResult.permLeaves[k].tree = treeOrder[k]
            /\ LeafSet(treeResult.permLeaves) = LeafSet(treeResult.leaves)
            /\ ExactSum(m, treeResult.permLeaves, Len(treeResult.permLeaves)) = exact
            /\ (treeResult.result = exact /\ treeResult.permResult = exact) =>
                   treeResult.permRet = treeResult.ret

\* three trees have been evaluated last tree first, and nothing was rounded
C10_Witness ==
    /\ treeResult.variant \in OptVariants
    /\ Len(treeOrder) = 3
    /\ treeOrder[1] = 2
    /\ treeOrder[3] = 0
    /\ treeResult.permLeaves[1].leaf >= 96
    /\ treeResult.permResult = treeResult.result


\* C22: the unrolled traversals (depth 6 in the SIMD variant, depths 6 and 5
\* in the fully-optimized variant) compute the leaf index the general
\* per-level loop / traverseTree computes, for every tree and every
\* binarized vector.
C22_UnrolledEqualsLoop ==
    treeResult.variant \in {"simd", "fully"} =>
        LET m == ModelNamed(treeModel)
        IN  \A t \in 1..m.TreeCount :
                treeResult.leaves[t].index =
                    traverseTree(treeBin, m, SplitsStart(m, t - 1), m.TreeDepth[t])

\* the fully-optimized variant has evaluated the deep model and the top bit
\* of the depth-6 index and of the depth-5 index are both set
C22_Witness ==
    /\ treeResult.variant = "fully"
    /\ treeModel = "deep"
    /\ treeResult.leaves[1].index >= 32
    /\ treeResult.leaves[2].index >= 16

\* the number of leaves of the model: the sum of 2^depth over its trees
LeafTotal(m) == LeafStart(m, m.TreeCount)

\* C23: for every tree t the index is in 0..2^depth_t - 1, the splits read
\* are exactly the positions from the sum of the depths before t up to that
\* sum plus depth_t (excluded), and the leaf read is the sum of 2^depth of
\* the trees before t plus the index: inside the tree's own block and below
\* the total number of leaves.
C23_ReadsOwnBlock ==
    treeResult.variant # "none" =>
        LET m == ModelNamed(treeModel)
        IN  \A t \in 1..m.TreeCount :
                LET r == treeResult.leaves[t]
                IN  /\ r.index \in 0..(Pow2(m.TreeDepth[t]) - 1)
                    /\ r.splits = SplitsStart(m, t - 1)..(SplitsStart(m, t) - 1)
                    /\ r.leaf = LeafStart(m, t - 1) + r.index
                    /\ r.leaf \in LeafStart(m, t - 1)..(LeafStart(m, t) - 1)
                    /\ r.leaf < LeafTotal(m)
                    /\ LeafTotal(m) <= Len(m.LeafValues)

\* the deep model has been evaluated and its last tree, of depth 1 after
\* trees of depth 6 and 5, read its second leaf: the last leaf of the model
C23_Witness ==
    /\ treeResult.variant \in OptVariants
    /\ treeModel = "deep"
    /\ treeResult.leaves[3].index = 1
    /\ treeResult.leaves[3].leaf = LeafTotal(ModelNamed("deep")) - 1
    /\ treeResult.leaves[3].splits = {11}

(***************************************************************************)
(* The batch entry point catboostPredictAll of the wrapper with the        *)
(* string tables CUT_MAPPING, COLOR_MAPPING and CLARITY_MAPPING.           *)
(***************************************************************************)
\* the benchmark calls it with six float and three categorical features
numFloatFeatures == 6
numCatFeatures == 3

featuresPerSample == numFloatFeatures + numCatFeatures

\* the largest batch
MaxSamples == 3

\* the model baseline.cpp holds in this build
BatchModel == MixedModel

\* records of a batch: four with every index in range, one with cut = 5
BatchRecords ==
    {r \in Records :
        \/ /\ <<r[1], r[2], r[4]>> = <<5, 8, 8>>
           /\ <<r[7], r[8], r[9]>> \in {<<0, 0, 0>>, <<4, 6, 2>>, <<8, 12, 14>>, <<10, 0, 0>>}
        \/ /\ <<r[1], r[2], r[4]>> = <<27, 11, 8>>
           /\ <<r[7], r[8], r[9]>> = <<4, 6, 2>>}

RECURSIVE Flatten(_)
Flatten(records) ==
    IF Len(records) = 0 THEN <<>> ELSE Head(records) \o Flatten(Tail(records))

Batches == UNION {[1..n -> BatchRecords] : n \in 0..MaxSamples}

\* the pointer that never advances
sampleDataNoStride(data, i) == SubSeq(data, 1, featuresPerSample)

\* const float* sampleData = inputData + (i * featuresPerSample), as the
\* elements sampleData[0 .. featuresPerSample - 1]
sampleData(data, i) ==
    SubSeq(data, i * featuresPerSample + 1, i * featuresPerSample + featuresPerSample)

\* for (j < numFloatFeatures) floatFeatures[j] = sampleData[j];
ExtractFloats(vec, sample) == [j \in 1..Len(vec) |-> sample[j]]

\* int catIdx = (int)sampleData[numFloatFeatures + j];
catIdx(sample, j) == StaticCastInt(sample[numFloatFeatures + j + 1])

\* the vectors the loop over j can leave in catFeatures: switch (j) stores
\* TABLE[catIdx] for j = 0, 1, 2 and leaves any other element as it was
ExtractCats(vec, sample) ==
    {[j \in 1..Len(vec) |->
        IF j = 1 THEN n1 ELSE IF j = 2 THEN n2 ELSE IF j = 3 THEN n3 ELSE vec[j]] :
        n1 \in UncheckedName(CUT_MAPPING, catIdx(sample, 0)),
        n2 \in UncheckedName(COLOR_MAPPING, catIdx(sample, 1)),
        n3 \in UncheckedName(CLARITY_MAPPING, catIdx(sample, 2))}

\* a record whose three indices are inside their tables
InTables(sample) ==
    \A s \in 1..numCatFeatures : InRange(s - 1, catIdx(sample, s - 1))

InitBatch ==
    /\ MainIdle
    /\ BinIdle
    /\ OneHotIdle
    /\ TreeIdle
    /\ StageIdle
    /\ LateIdle
    /\ \E b \in Batches :
         /\ numSamples = Len(b)
         /\ inputData = Flatten(b)
    /\ predictions = <<>>
    /\ sampleIndex = 0
    /\ reusedFloatFeatures = [j \in 1..numFloatFeatures |-> 0]
    /\ reusedCatFeatures = [j \in 1..numCatFeatures |-> ""]
    /\ batchStatus = "running"

\* one pass of for (int i = 0; i < numSamples; i++): fill the two vectors
\* from sample i and store the score; predictions is kept as the list of
\* stores <<index, value>> in the order they were made
PredictAllIteration ==
    /\ batchStatus = "running"
    /\ sampleIndex < numSamples
    /\ LET sample == sampleData(inputData, sampleIndex)
           floats == ExtractFloats(reusedFloatFeatures, sample)
       IN  /\ reusedFloatFeatures' = floats
           /\ reusedCatFeatures' \in ExtractCats(reusedCatFeatures, sample)
           /\ predictions' =
                Append(predictions,
                       <<sampleIndex,
                         ApplyCatboostModel(floats, reusedCatFeatures', BatchModel).ret>>)
    /\ sampleIndex' = sampleIndex + 1
    /\ UNCHANGED <<inputData, numSamples, batchStatus, mainVars, binVars, ohVars, treeVars, stageVars, lateVars>>

\* the read past the end of a mapping table traps
PredictAllTrap ==
    /\ batchStatus = "running"
    /\ sampleIndex < numSamples
    /\ ~InTables(sampleData(inputData, sampleIndex))
    /\ batchStatus' = "crashed"
    /\ UNCHANGED <<inputData, numSamples, predictions, sampleIndex,
                   reusedFloatFeatures, reusedCatFeatures,
                   mainVars, binVars, ohVars, treeVars, stageVars, lateVars>>

\* i reached numSamples
PredictAllReturn ==
    /\ batchStatus = "running"
    /\ sampleIndex >= numSamples
    /\ batchStatus' = "returned"
    /\ UNCHANGED <<inputData, numSamples, predictions, sampleIndex,
                   reusedFloatFeatures, reusedCatFeatures,
                   mainVars, binVars, ohVars, treeVars, stageVars, lateVars>>

NextBatch ==
    \/ PredictAllIteration
    \/ PredictAllTrap
    \/ PredictAllReturn

SpecBatch == InitBatch /\ [][NextBatch]_vars

\* record i of the batch: inputData[i*F .. i*F + F - 1]
RecordOf(i) == [j \in 1..featuresPerSample |-> inputData[i * featuresPerSample + j]]

\* C11: a finished run of catboostPredictAll has stored exactly one score to
\* predictions[i] for each i in 0..numSamples-1, in increasing i and nowhere
\* else, and the score stored for record i is a function of that record's
\* nine values alone: two equal records of a batch get equal scores
C11_OneScorePerRecord ==
    /\ \A k \in 1..Len(predictions) : predictions[k][1] = k - 1
    /\ batchStatus # "crashed"
    /\ batchStatus = "returned" => Len(predictions) = numSamples
    /\ \A k, l \in 1..Len(predictions) :
         RecordOf(k - 1) = RecordOf(l - 1)
            => predictions[k][2] = predictions[l][2]

\* C12: in a batch of valid records the score stored for record i is the
\* score the single-record catboostPredict of the same wrapper returns for
\* record i with featureCount 9
C12_BatchEqualsSingle ==
    (\A i \in 0..(numSamples - 1) : InTables(RecordOf(i)))
    => \A k \in 1..Len(predictions) :
         {c.ret : c \in BatchSinglePredict(BatchModel, RecordOf(k - 1))}
            = {predictions[k][2]}

\* a finished batch of three valid records, the last two with different scores
C12_Witness ==
    /\ batchStatus = "returned"
    /\ numSamples = MaxSamples
    /\ Len(predictions) = numSamples
    /\ \A i \in 0..(numSamples - 1) : InTables(RecordOf(i))
    /\ predictions[2][2] # predictions[3][2]
    /\ predictions[1][2] # predictions[2][2]

(***************************************************************************)
(* A scoring call of a hand-optimized variant taken stage by stage, and    *)
(* several such calls on worker threads.  Each thread has its own instance *)
(* of the thread_local scratch memory; the model and the static map        *)
(* catFeaturePackedIndexes are shared.  The scratch memory is the          *)
(* binaryFeaturesBuffer followed by SlackBytes bytes of whatever the       *)
(* thread's storage holds next: a store past the buffer's capacity lands   *)
(* there, or traps.                                                        *)
(***************************************************************************)
SlackBytes == 32

FreshScratch(v) == [o \in 0..(Capacity(v) + SlackBytes - 1) |-> 0]

\* the buffer as an earlier call on the same thread may have left it
UsedScratch(v) ==
    [o \in 0..(Capacity(v) + SlackBytes - 1) |-> IF o < Capacity(v) THEN 255 ELSE 0]

\* UsedModelCtrsCount = 0 although CtrFeatureBorders has an entry
UnusedCtrModel ==
    [MixedModel EXCEPT !.name = "unusedctr", !.CtrFeatureBorders = <<<<1>>>>]

\* the second CTR feature has no border; BinaryFeatureCount counts the
\* numeric slot, the one-hot slot and the one CTR feature with a border
SparseModel ==
    [CtrModel EXCEPT !.name = "sparse", !.CtrFeatureBorders = <<<<2, 4>>, <<>>>>,
                     !.BinaryFeatureCount = 3]

\* two numeric slots and more one-hot features than either buffer has bytes
OverflowModel ==
    [MixedModel EXCEPT
        !.name = "overflow",
        !.BinaryFeatureCount = 2 + BufferSize96 + 1,
        !.OneHotCatFeatureIndex = [i \in 1..(BufferSize96 + 1) |-> 1],
        !.OneHotHashValues =
            [i \in 1..(BufferSize96 + 1) |-> <<CalcCatFeatureHash("Ideal")>>]]

\* BinaryFeatureCount one short of the slots the border and hash lists need
MiscountedModel ==
    [MixedModel EXCEPT !.name = "miscounted", !.BinaryFeatureCount = 3]

StageModels ==
    {MixedModel, CtrModel, UnusedCtrModel, SparseModel, OverflowModel, MiscountedModel}

StageModelNamed(n) == CHOOSE m \in StageModels : m.name = n

\* the static map catFeaturePackedIndexes, built before the first call
PackedIndexes(m) ==
    [c \in 1..m.CatFeatureCount |->
        [flat |-> m.CatFeaturesIndex[c], packed |-> c - 1]]

\* records scored stage by stage
StageRecords ==
    {r \in Records :
        /\ <<r[1], r[2], r[4]>> \in {<<5, 8, 8>>, <<27, 11, 8>>}
        /\ <<r[7], r[8], r[9]>> \in {<<0, 0, 0>>, <<8, 12, 14>>}}

StageInputs == StageRecords \cup ShortInputs

\* the order of the stages of catboostPredict
StageAfterCtrFirst(stage) ==
    CASE stage = "clear"  -> "float"
      [] stage = "float"  -> "ctr"
      [] stage = "ctr"    -> "onehot"
      [] stage = "onehot" -> "trees"
      [] stage = "trees"  -> "done"

StageAfter(stage) ==
    CASE stage = "clear"  -> "float"
      [] stage = "float"  -> "onehot"
      [] stage = "onehot" -> "ctr"
      [] stage = "ctr"    -> "trees"
      [] stage = "trees"  -> "done"

\* the instance of the scratch memory worker w uses: thread_local gives each
\* thread its own; a plain static would give every thread the first
ScratchShared(w) == 1

ScratchOf(w) == w

\* a call before it starts
NewCall(features) ==
    [pc |-> "clear", features |-> features, hashes |-> <<>>, idx |-> 0,
     snapshot |-> <<>>, snapped |-> FALSE, treeId |-> 0, ts |-> TreeLoopStart,
     ret |-> 0, log |-> <<>>]

\* what a stage did: its name and the slots it stored to
Event(stage, from, to) == [stage |-> stage, slots |-> from..(to - 1)]

StageModel == StageModelNamed(sharedModel)

InitStageWith(ws, scratches) ==
    /\ workers = ws
    /\ scorer \in OptVariants
    /\ sharedModel \in {m.name : m \in StageModels}
    /\ sharedTables = PackedIndexes(StageModel)
    /\ \E s \in scratches : scratch = [w \in ws |-> IF s THEN UsedScratch(scorer) ELSE FreshScratch(scorer)]
    /\ calls \in [ws -> {NewCall(f) : f \in StageInputs}]

\* one thread; its scratch memory fresh or used
InitStage ==
    /\ MainIdle
    /\ BinIdle
    /\ OneHotIdle
    /\ TreeIdle
    /\ BatchIdle
    /\ LateIdle
    /\ InitStageWith({1}, {FALSE, TRUE})

\* two threads, started for the scoring session
InitWorkers ==
    /\ MainIdle
    /\ BinIdle
    /\ OneHotIdle
    /\ TreeIdle
    /\ BatchIdle
    /\ LateIdle
    /\ InitStageWith({1, 2}, {FALSE})

StageFrame == UNCHANGED <<workers, scorer, sharedModel, sharedTables, mainVars, binVars, ohVars, treeVars, batchVars, lateVars>>

\* the binarization state of worker w's call
StateOf(w) == [buf |-> scratch[ScratchOf(w)], idx |-> calls[w].idx]

\* worker w's call after a binarization stage that left st
Staged(w, stage, st) ==
    [calls[w] EXCEPT !.pc = StageAfter(stage), !.idx = st.idx,
                     !.log = Append(@, Event(stage, calls[w].idx, st.idx))]

\* if (featureCount != 9) return -1.0f; the hash lookups; the clearing of
\* the buffer; binFeatureIndex = 0
EnterCall(w) ==
    /\ calls[w].pc = "clear"
    /\ IF Len(calls[w].features) # 9
       THEN /\ calls' = [calls EXCEPT ![w].pc = "done", ![w].ret = -1]
            /\ UNCHANGED scratch
       ELSE /\ scratch' = [scratch EXCEPT ![ScratchOf(w)] = ClearBuffer(scorer, @, StageModel)]
            /\ calls' = [calls EXCEPT ![w].pc = StageAfter("clear"),
                                      ![w].hashes = DirectHashes(calls[w].features),
                                      ![w].idx = 0,
                                      ![w].log = Append(@, [stage |-> "clear",
                                                            slots |-> ZeroStores(scorer, StageModel)])]
    /\ StageFrame

\* the float-feature loop
FloatStage(w) ==
    /\ calls[w].pc = "float"
    /\ LET st == FloatLoop(scorer, StateOf(w), calls[w].features, StageModel, 0)
       IN  /\ scratch' = [scratch EXCEPT ![ScratchOf(w)] = st.buf]
           /\ calls' = [calls EXCEPT ![w] = Staged(w, "float", st)]
    /\ StageFrame

\* the one-hot loop, which reads catFeaturePackedIndexes
OneHotStage(w) ==
    /\ calls[w].pc = "onehot"
    /\ \A i \in 1..Len(StageModel.OneHotCatFeatureIndex) :
         \E c \in 1..Len(sharedTables) :
            sharedTables[c].flat = StageModel.OneHotCatFeatureIndex[i]
    /\ LET st == IF Len(StageModel.OneHotCatFeatureIndex) > 0
                 THEN OneHotLoop(scorer, StateOf(w), calls[w].hashes, StageModel, 0)
                 ELSE StateOf(w)
       IN  /\ scratch' = [scratch EXCEPT ![ScratchOf(w)] = st.buf]
           /\ calls' = [calls EXCEPT ![w] = Staged(w, "onehot", st)]
    /\ StageFrame

\* std::vector<unsigned char> binaryFeaturesVec(buffer, buffer + BinaryFeatureCount)
\* inside if (UsedModelCtrsCount > 0)
CtrSnapshot(w) ==
    /\ calls[w].pc = "ctr"
    /\ ~calls[w].snapped
    /\ StageModel.modelCtrs.UsedModelCtrsCount > 0
    /\ calls' = [calls EXCEPT ![w].snapped = TRUE,
                              ![w].snapshot = Snapshot(scratch[ScratchOf(w)], StageModel),
                              ![w].log = Append(@, Event("snapshot", 0, 0))]
    /\ UNCHANGED scratch
    /\ StageFrame

\* the rest of the CTR block: CalcCtrs and the loop over CtrFeatureBorders;
\* nothing when UsedModelCtrsCount = 0
CtrBinarize(w) ==
    /\ calls[w].pc = "ctr"
    /\ calls[w].snapped \/ StageModel.modelCtrs.UsedModelCtrsCount = 0
    /\ LET st == CtrStage(scorer, StateOf(w), calls[w].hashes, StageModel)
       IN  /\ scratch' = [scratch EXCEPT ![ScratchOf(w)] = st.buf]
           /\ calls' = [calls EXCEPT ![w] = Staged(w, "ctr", st)]
    /\ StageFrame

\* one pass of the tree loop: it reads the buffer and stores nothing to it
TreeStage(w) ==
    /\ calls[w].pc = "trees"
    /\ calls[w].treeId < StageModel.TreeCount
    /\ calls' = [calls EXCEPT
                   ![w].ts = TreeStep(scorer, @, scratch[ScratchOf(w)], StageModel, calls[w].treeId),
                   ![w].treeId = @ + 1,
                   ![w].log = Append(@, Event("trees", 0, 0))]
    /\ UNCHANGED scratch
    /\ StageFrame

\* return static_cast<float>(Scale * result + Biases[0])
Aggregate(w) ==
    /\ calls[w].pc = "trees"
    /\ calls[w].treeId >= StageModel.TreeCount
    /\ calls' = [calls EXCEPT ![w].pc = StageAfter("trees"),
                              ![w].ret = FinalScore(StageModel, calls[w].ts.result)]
    /\ UNCHANGED scratch
    /\ StageFrame

\* a store past the capacity of the buffer can trap instead of landing in
\* the bytes behind it
StoreTrap(w) ==
    /\ calls[w].pc \in {"onehot", "ctr", "trees"}
    /\ calls[w].idx > Capacity(scorer)
    /\ calls' = [calls EXCEPT ![w].pc = "crashed"]
    /\ UNCHANGED scratch
    /\ StageFrame

NextStage ==
    \E w \in workers :
        \/ EnterCall(w)
        \/ FloatStage(w)
        \/ OneHotStage(w)
        \/ CtrSnapshot(w)
        \/ CtrBinarize(w)
        \/ TreeStage(w)
        \/ Aggregate(w)
        \/ StoreTrap(w)

SpecStage == InitStage /\ [][NextStage]_vars

SpecWorkers == InitWorkers /\ [][NextStage]_vars

\* the slots the stages of worker w's call have stored to so far
SlotsOf(w, stages) ==
    UNION {calls[w].log[k].slots : k \in {j \in 1..Len(calls[w].log) : calls[w].log[j].stage \in stages}}

HasEvent(w, stage) == \E k \in 1..Len(calls[w].log) : calls[w].log[k].stage = stage

\* C13: when the model declares UsedModelCtrsCount = 0 the step through the
\* CTR stage leaves the binarized feature vector and binFeatureIndex exactly
\* as numeric and one-hot binarization left them
C13_CtrNoOp ==
    [][\A w \in workers :
         (/\ StageModel.modelCtrs.UsedModelCtrsCount = 0
          /\ calls[w].pc = "ctr"
          /\ calls'[w].pc = "trees")
         => /\ scratch'[w] = scratch[w]
            /\ calls'[w].idx = calls[w].idx
            /\ SlotsOf(w, {"ctr"})' = {}]_vars

\* a call past its CTR stage on the model that lists a CTR border but uses
\* no CTR
C13_Witness ==
    /\ workers = {1}
    /\ sharedModel = "unusedctr"
    /\ calls[1].pc = "trees"
    /\ HasEvent(1, "ctr")
    /\ calls[1].idx = 4

\* C14: every store of a numeric, one-hot or CTR slot lands below the
\* capacity of the binarized feature buffer, 84 bytes or 96
C14_WritesBelowCapacity ==
    \A w \in workers : SlotsOf(w, {"float", "onehot", "ctr"}) \subseteq 0..(Capacity(scorer) - 1)

\* the structural invariants of a model: BinaryFeatureCount is the number of
\* numeric features with a border, plus the one-hot features, plus the CTR
\* features with a border; the leaf array holds 2^depth values per tree
WellFormed(m) ==
    /\ m.BinaryFeatureCount =
         Cardinality({i \in 1..Len(m.FloatFeatureBorders) : Len(m.FloatFeatureBorders[i]) > 0})
         + Len(m.OneHotCatFeatureIndex)
         + Cardinality({i \in 1..Len(m.CtrFeatureBorders) : Len(m.CtrFeatureBorders[i]) > 0})
    /\ Len(m.OneHotHashValues) = Len(m.OneHotCatFeatureIndex)
    /\ Len(m.TreeDepth) = m.TreeCount
    /\ Len(m.LeafValues) = LeafStart(m, m.TreeCount)

\* C16: a model whose structural invariants do not hold is never used by a
\* scoring call: no call gets past its entry
C16_IllFormedNeverScored ==
    ~WellFormed(StageModel) => \A w \in workers : calls[w].pc = "clear"

\* the place of a stage in the fixed order
Rank(stage) ==
    CASE stage = "clear"    -> 0
      [] stage = "float"    -> 1
      [] stage = "onehot"   -> 2
      [] stage = "snapshot" -> 3
      [] stage = "ctr"      -> 4
      [] stage = "trees"    -> 5

\* C19: within one call the stages run in a fixed order: the numeric and
\* one-hot slots are written before the CTR snapshot is taken, the snapshot
\* holds zero in every slot they did not write, the CTR slots are written
\* before the first tree is evaluated, and nothing is written afterwards
C19_StageOrder ==
    \A w \in workers :
        LET log == calls[w].log
        IN  /\ \A j, k \in 1..Len(log) :
                  j < k => /\ Rank(log[j].stage) <= Rank(log[k].stage)
                           /\ log[k].stage # "trees" => log[j].stage # log[k].stage
            /\ HasEvent(w, "snapshot") => HasEvent(w, "float") /\ HasEvent(w, "onehot")
            /\ HasEvent(w, "trees") => HasEvent(w, "float") /\ HasEvent(w, "onehot") /\ HasEvent(w, "ctr")
            /\ HasEvent(w, "trees") /\ StageModel.modelCtrs.UsedModelCtrsCount > 0
                  => HasEvent(w, "snapshot")
            /\ calls[w].snapped =>
                  \A k \in 1..Len(calls[w].snapshot) :
                     (k - 1) \notin SlotsOf(w, {"float", "onehot"}) => calls[w].snapshot[k] = 0
            /\ \A k \in 1..Len(log) : log[k].stage = "trees" => log[k].slots = {}

\* a finished call whose snapshot held a non-zero numeric or one-hot slot,
\* whose CTR stage wrote two slots and whose two trees were evaluated
C19_Witness ==
    /\ workers = {1}
    /\ calls[1].pc = "done"
    /\ \E k \in 1..Len(calls[1].snapshot) : calls[1].snapshot[k] # 0
    /\ Cardinality(SlotsOf(1, {"ctr"})) = 2
    /\ calls[1].treeId = 2

\* the call of worker w is past binarization
Binarized(w) == calls[w].pc \in {"trees", "done"} /\ HasEvent(w, "ctr")

\* numeric features with a border, one-hot features with a hash value
NumericSlots(m) ==
    Cardinality({i \in 1..Len(m.FloatFeatureBorders) : Len(m.FloatFeatureBorders[i]) > 0})

OneHotSlots(m) ==
    Cardinality({i \in 1..Len(m.OneHotHashValues) : Len(m.OneHotHashValues[i]) > 0})

AloneScore(v, m, features) == OptimizedPredict(v, FreshScratch(v), m, features).call.ret

\* C15: under every interleaving of the workers' calls each finished call
\* returned the score it returns when it runs alone, and the shared model
\* and the shared lookup table are as they were before the calls (for a
\* model whose slots fit the buffer: with more slots than bytes a call has
\* no defined score even alone)
C15_SameAsAlone ==
    /\ sharedTables = PackedIndexes(StageModel)
    /\ \A w \in workers :
          calls[w].pc = "done" /\ SlotCount(StageModel) <= Capacity(scorer)
             => calls[w].ret = AloneScore(scorer, StageModel, calls[w].features)

\* two workers on different records: one has finished, the other is between
\* its two trees, and both have binarized into their own buffers
C15_Witness ==
    /\ workers = {1, 2}
    /\ calls[1].features # calls[2].features
    /\ calls[1].pc = "done"
    /\ calls[2].pc = "trees"
    /\ calls[2].treeId = 1
    /\ scratch[1] # scratch[2]
    /\ calls[1].ret # AloneScore(scorer, StageModel, calls[2].features)

(***************************************************************************)
(* The bytes of a numeric slot and of a one-hot slot, over lists up to and *)
(* beyond what an unsigned char can count.                                 *)
(***************************************************************************)
\* border lists of 1, 3, 255 and 256 borders
ByteBorderLists ==
    {Stair(n, k) : n \in {1, 3}, k \in {0, 1}}
    \cup {Stair(n, n) : n \in LongLens} \cup {Stair(n, n - 1) : n \in LongLens}

\* n hash values, the k-th of them h and every other one g
OneAt(n, k, h, g) == [i \in 1..n |-> IF i = k THEN h ELSE g]

\* hash lists of 1, 2 and 3 values, one of them with a repeated value, and
\* lists of 255 and 256 values that name CUT_HASHES[1] once, at their end or
\* at their start
ByteHashLists ==
    {<<CUT_HASHES[1]>>, <<CUT_HASHES[3], CUT_HASHES[1]>>,
     <<CUT_HASHES[3], COLOR_HASHES[1], CUT_HASHES[1]>>,
     <<CUT_HASHES[1], CUT_HASHES[3], CUT_HASHES[1]>>}
    \cup {OneAt(n, n, CUT_HASHES[1], CUT_HASHES[3]) : n \in LongLens}
    \cup {OneAt(n, 1, CUT_HASHES[1], CUT_HASHES[3]) : n \in LongLens}

InitByte ==
    /\ MainIdle
    /\ TreeIdle
    /\ MoreIdle
    /\ binBorders \in ByteBorderLists
    /\ binValues \in ValuePairs
    /\ binResult = NoBin
    /\ ohHash \in {CUT_HASHES[1], CUT_HASHES[2], SentinelHash}
    /\ ohValues \in ByteHashLists
    /\ ohResult = NoOneHot

\* the float-feature loop and the one-hot loop, each run once by some variant
NextByte == NextBin \/ NextOneHot

SpecByte == InitByte /\ [][NextByte]_vars

\* C21 as stated: the byte of a numeric slot is the exact number of borders
\* below the value, and the byte of a one-hot slot whose list names the hash
\* at most once is the exact ordinal of the match, for lists of any length
C21_NeverWraps ==
    /\ (binResult.variant # "none" /\ Len(binBorders) > 0) =>
          /\ binResult.lo = CountLess(binValues[1], binBorders)
          /\ binResult.hi = CountLess(binValues[2], binBorders)
    /\ (ohResult.variant # "none" /\ Len(ohValues) > 0
        /\ Cardinality(Matches(ohHash, ohValues)) <= 1) =>
          ohResult.byte = FirstMatch(ohHash, ohValues)

\* C21 amended: for a border list of at most 255 borders the byte is the
\* exact count, and for a hash list of at most 255 values that names the
\* hash at most once the byte is the exact ordinal; a count or an ordinal of
\* 256 is stored as 0
C21_ExactUpTo255 ==
    /\ (binResult.variant # "none" /\ Len(binBorders) > 0) =>
          /\ binResult.lo = CountLess(binValues[1], binBorders) % ByteMod
          /\ binResult.hi = CountLess(binValues[2], binBorders) % ByteMod
          /\ Len(binBorders) < ByteMod =>
                /\ binResult.lo = CountLess(binValues[1], binBorders)
                /\ binResult.hi = CountLess(binValues[2], binBorders)
    /\ (ohResult.variant # "none" /\ Len(ohValues) > 0
        /\ Cardinality(Matches(ohHash, ohValues)) <= 1) =>
          /\ ohResult.byte = FirstMatch(ohHash, ohValues) % ByteMod
          /\ Len(ohValues) < ByteMod => ohResult.byte = FirstMatch(ohHash, ohValues)

\* a count of 255 and an ordinal of 255 have both been stored exactly
C21_Witness ==
    /\ binResult.variant \in OptVariants
    /\ Len(binBorders) = ByteMod - 1
    /\ binResult.hi = ByteMod - 1
    /\ ohResult.variant \in OptVariants
    /\ Len(ohValues) = ByteMod - 1
    /\ ohResult.byte = ByteMod - 1

\* C24: the 16-byte stores that zero binaryFeaturesBuffer at the start of a
\* call write only offsets 0..capacity-1 of the buffer, in the SIMD and in
\* the fully-optimized variant.
C24_ZeroStoresInside ==
    \A w \in workers :
        scorer \in {"simd", "fully"} =>
            SlotsOf(w, {"clear"}) \subseteq 0..(Capacity(scorer) - 1)

(***************************************************************************)
(* Rejected calls between valid ones.  Two threads of one build start with *)
(* their zero-initialized thread-local buffers and are given the same      *)
(* calls, except that the second thread is never given a call whose        *)
(* featureCount is not 9.                                                  *)
(***************************************************************************)
MaxCalls == 3

RejectModels == {MixedModel, CtrModel, MiscountedModel}

RejectModel == CHOOSE m \in RejectModels : m.name = rjModel

RejectInputs == StageInputs \cup LongInputs

InitReject ==
    /\ MainIdle
    /\ BinIdle
    /\ OneHotIdle
    /\ TreeIdle
    /\ BatchIdle
    /\ StageIdle
    /\ JsIdle
    /\ rjScorer \in OptVariants
    /\ rjModel \in {m.name : m \in RejectModels}
    /\ rjWith = [buf |-> ZeroBuffer(rjScorer), ret |-> 0]
    /\ rjWithout = [buf |-> ZeroBuffer(rjScorer), ret |-> 0]
    /\ rjTrace = <<>>

RejectFrame == UNCHANGED <<rjScorer, rjModel, mainVars, binVars, ohVars, treeVars, batchVars, stageVars, jsVars>>

\* what a call of catboostPredict leaves on a thread
AfterCall(thread, features) ==
    LET o == OptimizedPredict(rjScorer, thread.buf, RejectModel, features)
    IN  [buf |-> o.buf, ret |-> o.call.ret]

\* a call with featureCount # 9, made on the first thread only
RejectedCall ==
    /\ Len(rjTrace) < MaxCalls
    /\ \E features \in RejectInputs :
         /\ Len(features) # 9
         /\ rjWith' = AfterCall(rjWith, features)
    /\ rjTrace' = Append(rjTrace, "rejected")
    /\ UNCHANGED rjWithout
    /\ RejectFrame

\* a call with featureCount = 9, made on both threads
AcceptedCall ==
    /\ Len(rjTrace) < MaxCalls
    /\ \E features \in RejectInputs :
         /\ Len(features) = 9
         /\ rjWith' = AfterCall(rjWith, features)
         /\ rjWithout' = AfterCall(rjWithout, features)
    /\ rjTrace' = Append(rjTrace, "valid")
    /\ RejectFrame

NextReject == RejectedCall \/ AcceptedCall

SpecReject == InitReject /\ [][NextReject]_vars

\* C26: a call rejected for featureCount # 9 returns -1 and leaves the
\* thread-local buffer as it found it, so the thread's buffer, and the score
\* of its next valid call, are those of a thread that was given the same
\* valid calls and no rejected one.
C26_RejectedCallInvisible ==
    /\ rjWith.buf = rjWithout.buf
    /\ (rjTrace # <<>> /\ rjTrace[Len(rjTrace)] = "rejected") => rjWith.ret = -1
    /\ (rjTrace # <<>> /\ rjTrace[Len(rjTrace)] = "valid") => rjWith.ret = rjWithout.ret

\* a valid call left bytes in the buffer, a rejected call followed, and a
\* second valid call has been scored
C26_Witness ==
    /\ rjTrace = <<"valid", "rejected", "valid">>
    /\ \E o \in DOMAIN rjWith.buf : rjWith.buf[o] # 0
    /\ rjWith.ret # -1

(***************************************************************************)
(* The batching worker thread: testData.nSamples samples scored through a  *)
(* WASM block of batchSize samples.  predictions[k] and the heap slots are *)
(* kept as the index of the sample whose features they come from.          *)
(***************************************************************************)
MaxBatchSize == 3

MaxTotalSamples == 5

ProgressEvery == 10000

\* a batch of batchSize samples whatever is left
CurrentBatchSizeUncapped(bSize, totalSamples, processed) == bSize

\* Math.min(batchSize, totalSamples - processed)
CurrentBatchSize(bSize, totalSamples, processed) ==
    IF bSize < totalSamples - processed THEN bSize ELSE totalSamples - processed

\* the worker after Module._malloc(featureBytes * batchSize) and
\* new Float32Array(testData.nSamples), with processed = 0
InitBatchWorker ==
    /\ MainIdle
    /\ BinIdle
    /\ OneHotIdle
    /\ TreeIdle
    /\ BatchIdle
    /\ StageIdle
    /\ RejectIdle
    /\ ParentIdle
    /\ LoaderIdle
    /\ \E b \in 1..MaxBatchSize, n \in 0..MaxTotalSamples :
         batchWorker =
            [batchSize |-> b, totalSamples |-> n, processed |-> 0, pc |-> "while",
             currentBatchSize |-> 0, i |-> 0, copied |-> 0,
             heap |-> [slot \in 0..(b - 1) |-> -1],
             predictions |-> [k \in 0..(n - 1) |-> -1],
             calls |-> <<>>, posted |-> <<>>, freed |-> FALSE]

BatchWorkerFrame ==
    UNCHANGED <<mainVars, binVars, ohVars, treeVars, batchVars, stageVars, rejectVars,
                parent, loader>>

\* while (processed < totalSamples) { const currentBatchSize = Math.min(...)
WhileTest ==
    /\ batchWorker.pc = "while"
    /\ batchWorker' =
         IF batchWorker.processed < batchWorker.totalSamples
         THEN [batchWorker EXCEPT
                 !.pc = "copy", !.i = 0, !.copied = 0,
                 !.currentBatchSize =
                     CurrentBatchSize(batchWorker.batchSize, batchWorker.totalSamples,
                                      batchWorker.processed)]
         ELSE [batchWorker EXCEPT !.pc = "free"]
    /\ BatchWorkerFrame

\* one iteration of the copy loop: sample processed + i into slot i
CopySample ==
    /\ batchWorker.pc = "copy"
    /\ batchWorker.i < batchWorker.currentBatchSize
    /\ batchWorker' =
         [batchWorker EXCEPT
            !.heap = IF batchWorker.i \in DOMAIN batchWorker.heap
                     THEN [@ EXCEPT ![batchWorker.i] = batchWorker.processed + batchWorker.i]
                     ELSE @,
            !.copied = @ + 1,
            !.i = @ + 1]
    /\ BatchWorkerFrame

\* the copy loop ends
CopyDone ==
    /\ batchWorker.pc = "copy"
    /\ batchWorker.i >= batchWorker.currentBatchSize
    /\ batchWorker' = [batchWorker EXCEPT !.pc = "predict", !.i = 0]
    /\ BatchWorkerFrame

\* predictions[processed + i] = catboostPredict(featuresPtr + i * featureBytes, ...);
\* a store past the end of a Float32Array is dropped
PredictSample ==
    /\ batchWorker.pc = "predict"
    /\ batchWorker.i < batchWorker.currentBatchSize
    /\ LET sample == batchWorker.heap[batchWorker.i]
           k == batchWorker.processed + batchWorker.i
       IN  batchWorker' =
             [batchWorker EXCEPT
                !.calls = Append(@, sample),
                !.predictions = IF k \in DOMAIN @ THEN [@ EXCEPT ![k] = sample] ELSE @,
                !.i = @ + 1]
    /\ BatchWorkerFrame

\* processed += currentBatchSize; the progress report
Advance ==
    /\ batchWorker.pc = "predict"
    /\ batchWorker.i >= batchWorker.currentBatchSize
    /\ LET done == batchWorker.processed + batchWorker.currentBatchSize
       IN  batchWorker' =
             [batchWorker EXCEPT
                !.processed = done,
                !.posted = IF done % ProgressEvery = 0 \/ done = batchWorker.totalSamples
                           THEN Append(@, [type |-> "progress", processed |-> done])
                           ELSE @,
                !.pc = "while"]
    /\ BatchWorkerFrame

\* Module._free(featuresPtr)
FreeFeatures ==
    /\ batchWorker.pc = "free"
    /\ batchWorker' = [batchWorker EXCEPT !.freed = TRUE, !.pc = "post"]
    /\ BatchWorkerFrame

\* parentPort.postMessage({ type: 'complete', results: Array.from(predictions) })
PostComplete ==
    /\ batchWorker.pc = "post"
    /\ batchWorker' =
         [batchWorker EXCEPT
            !.posted = Append(@, [type |-> "complete", processed |-> batchWorker.processed]),
            !.pc = "done"]
    /\ BatchWorkerFrame

NextBatchWorker ==
    \/ WhileTest
    \/ CopySample
    \/ CopyDone
    \/ PredictSample
    \/ Advance
    \/ FreeFeatures
    \/ PostComplete

SpecBatchWorker == InitBatchWorker /\ [][NextBatchWorker]_vars

\* the worker's script runs on its own thread until it returns
SpecBatchWorkerFair == SpecBatchWorker /\ WF_vars(NextBatchWorker)

\* the 'complete' messages posted so far
CompletePosts ==
    {k \in 1..Len(batchWorker.posted) : batchWorker.posted[k].type = "complete"}

\* what holds of the worker at every moment: a batch never exceeds the
\* block, the samples are scored one after the other from sample 0, and
\* 'complete' is posted at most once and only after the last prediction
BatchLoopInvariant ==
    /\ batchWorker.copied <= batchWorker.batchSize
    /\ batchWorker.currentBatchSize <= batchWorker.batchSize
    /\ batchWorker.processed <= batchWorker.totalSamples
    /\ Len(batchWorker.calls) <= batchWorker.totalSamples
    /\ \A k \in 1..Len(batchWorker.calls) : batchWorker.calls[k] = k - 1
    /\ Cardinality(CompletePosts) <= 1
    /\ CompletePosts # {} =>
         /\ CompletePosts = {Len(batchWorker.posted)}
         /\ Len(batchWorker.calls) = batchWorker.totalSamples
         /\ batchWorker.processed = batchWorker.totalSamples
    /\ batchWorker.pc = "done" =>
         /\ Cardinality(CompletePosts) = 1
         /\ \A k \in 0..(batchWorker.totalSamples - 1) : batchWorker.predictions[k] = k

MaxMessages == 3

Runners == {"run_predictions", "simple_run", "experiment_runner"}

Payloads == {"p1", "p2"}

\* the messages a worker may post
Messages ==
    {[event |-> "message", type |-> t, payload |-> "-"] : t \in {"status", "progress"}}
    \cup {[event |-> "message", type |-> t, payload |-> p] : t \in {"complete", "result"}, p \in Payloads}

ErrorEvent == [event |-> "error", type |-> "-", payload |-> "err"]

ExitEvent(code) == [event |-> "exit", type |-> "-", payload |-> code]

\* let results = null; / const results = {};
NoResults(runner) == IF runner = "experiment_runner" THEN "{}" ELSE "null"

\* the message type whose payload the runner keeps
KeptType(runner) == IF runner = "experiment_runner" THEN "result" ELSE "complete"

Pending == [state |-> "pending", value |-> "-"]

\* a promise whose resolve and reject act whenever they are called
SettleAgain(promise, state, value) == [state |-> state, value |-> value]

\* resolve(value) / reject(value): they act on a pending promise only
Settle(promise, state, value) ==
    IF promise.state = "pending" THEN [state |-> state, value |-> value] ELSE promise

InitParent ==
    /\ MainIdle
    /\ BinIdle
    /\ OneHotIdle
    /\ TreeIdle
    /\ BatchIdle
    /\ StageIdle
    /\ RejectIdle
    /\ BatchWorkerIdle
    /\ LoaderIdle
    /\ \E r \in Runners :
         parent = [runner |-> r, worker |-> "running", posts |-> 0, inbox |-> <<>>,
                   handled |-> <<>>, results |-> NoResults(r), promise |-> Pending]

ParentFrame ==
    UNCHANGED <<mainVars, binVars, ohVars, treeVars, batchVars, stageVars, rejectVars,
                batchWorker, loader>>

\* parentPort.postMessage(msg) in the worker
WorkerPosts ==
    /\ parent.worker = "running"
    /\ parent.posts < MaxMessages
    /\ \E msg \in Messages :
         parent' = [parent EXCEPT !.inbox = Append(@, msg), !.posts = @ + 1]
    /\ ParentFrame

\* the worker's script returns, or calls process.exit(code)
WorkerExits ==
    /\ parent.worker = "running"
    /\ \E code \in {0, 1} :
         parent' = [parent EXCEPT !.inbox = Append(@, ExitEvent(code)), !.worker = "exited"]
    /\ ParentFrame

\* an uncaught error in the worker
WorkerThrows ==
    /\ parent.worker = "running"
    /\ parent' = [parent EXCEPT !.inbox = @ \o <<ErrorEvent, ExitEvent(1)>>,
                                !.worker = "exited"]
    /\ ParentFrame

\* the event the main thread handles next
NextEvent == parent.inbox[1]

Handled(ev) ==
    [parent EXCEPT !.inbox = Tail(@), !.handled = Append(@, ev)]

\* worker.on('message', ...): results = msg.results on 'complete' (the
\* fields of results set from the message on 'result'); 'progress' and
\* 'status' are printed
OnMessage ==
    /\ parent.inbox # <<>>
    /\ NextEvent.event = "message"
    /\ parent' = [Handled(NextEvent) EXCEPT
                    !.results = IF NextEvent.type = KeptType(parent.runner)
                                THEN NextEvent.payload ELSE @]
    /\ ParentFrame

\* worker.on('error', reject)
OnError ==
    /\ parent.inbox # <<>>
    /\ NextEvent.event = "error"
    /\ parent' = [Handled(NextEvent) EXCEPT
                    !.promise = Settle(@, "rejected", NextEvent.payload)]
    /\ ParentFrame

\* worker.on('exit', (code) => { if (code !== 0) reject(new Error(...)); else resolve(results); })
OnExit ==
    /\ parent.inbox # <<>>
    /\ NextEvent.event = "exit"
    /\ parent' = [Handled(NextEvent) EXCEPT
                    !.promise = IF NextEvent.payload # 0
                                THEN Settle(@, "rejected", "exit code")
                                ELSE Settle(@, "fulfilled", parent.results)]
    /\ ParentFrame

NextParent ==
    \/ WorkerPosts
    \/ WorkerExits
    \/ WorkerThrows
    \/ OnMessage
    \/ OnError
    \/ OnExit

SpecParent == InitParent /\ [][NextParent]_vars

\* the events of a kind among those handled so far, as positions
HandledOf(kind) == {k \in 1..Len(parent.handled) : parent.handled[k].event = kind}

\* the payload of the last message of the kept type handled so far, or the
\* initial value of results
LastKept ==
    LET kept == {k \in HandledOf("message") : parent.handled[k].type = KeptType(parent.runner)}
    IN  IF kept = {} THEN NoResults(parent.runner)
        ELSE parent.handled[CHOOSE k \in kept : \A j \in kept : j <= k].payload

\* the promise is pending exactly until an 'error' or an 'exit' is handled;
\* fulfilled only by an 'exit' with code 0 and no 'error', with the payload
\* of the last kept message; rejected by an 'error' or a non-zero exit code
PromiseOutcome ==
    /\ parent.promise.state = "pending" <=> (HandledOf("error") \cup HandledOf("exit") = {})
    /\ parent.promise.state = "fulfilled" =>
         /\ HandledOf("error") = {}
         /\ \E k \in HandledOf("exit") : parent.handled[k].payload = 0
         /\ parent.promise.value = LastKept
    /\ parent.promise.state = "rejected" =>
         \/ HandledOf("error") # {}
         \/ \E k \in HandledOf("exit") : parent.handled[k].payload # 0

\* C28: the promise of runPredictionsInWorker / runExperiment settles once,
\* and only when the worker has exited or raised an error: it resolves, with
\* the payload of the last 'complete' (or 'result') message received, only
\* on exit code 0, it rejects on a worker error or a non-zero exit code, and
\* a 'progress' or 'status' message never settles it; once settled it keeps
\* its outcome.
C28_SettlesOnce ==
    /\ []PromiseOutcome
    /\ [][parent.promise.state # "pending" => parent.promise' = parent.promise]_vars

\* run_predictions has handled 'complete' p1, 'progress', 'complete' p2 and
\* exit code 0, and its promise is fulfilled with p2
C28_Witness ==
    /\ parent.runner = "run_predictions"
    /\ Len(parent.handled) = 4
    /\ parent.handled[1] = [event |-> "message", type |-> "complete", payload |-> "p1"]
    /\ parent.handled[2].type = "progress"
    /\ parent.handled[3] = [event |-> "message", type |-> "complete", payload |-> "p2"]
    /\ parent.handled[4] = ExitEvent(0)
    /\ parent.promise = [state |-> "fulfilled", value |-> "p2"]

(***************************************************************************)
(* The test-data loaders: loadTestData of run_predictions.js, loadTestData *)
(* of the simple runner (with the version-2 layout), and the worker that   *)
(* reads the file itself, allocates the input and output blocks and calls  *)
(* catboostPredictAll.  A 32-bit word is kept as <<high half, low half>>.  *)
(***************************************************************************)
\* 0xCAFEBABE
MagicWord == <<51966, 47806>>

\* the word read with the most significant byte first
ReadUInt32BE(bytes, offset) ==
    <<bytes[offset + 1] * 256 + bytes[offset + 2], bytes[offset + 3] * 256 + bytes[offset + 4]>>

\* buffer.readUInt32LE(offset); DataView.getUint32(offset, true)
ReadUInt32LE(bytes, offset) ==
    <<bytes[offset + 4] * 256 + bytes[offset + 3], bytes[offset + 2] * 256 + bytes[offset + 1]>>

\* the four bytes of a word as they lie in a file
WordBytes(word) ==
    <<word[2] % 256, word[2] \div 256, word[1] % 256, word[1] \div 256>>

Zeros(n) == [k \in 1..n |-> 0]

\* a file in the original layout: header, records of nFeatures float32, and
\* one float32 of ground truth per record; short bytes are cut off its end
FileV1(magic, nSamples, short) ==
    LET all == WordBytes(magic) \o WordBytes(<<0, 1>>) \o WordBytes(<<0, nSamples>>)
               \o WordBytes(<<0, featuresPerSample>>)
               \o Zeros(nSamples * featuresPerSample * 4) \o Zeros(nSamples * 4)
    IN  SubSeq(all, 1, Len(all) - short)

\* a file in the version-2 layout: a fifth header word, and records of six
\* float32, three uint8 and a padding byte
FileV2(magic, nSamples) ==
    WordBytes(magic) \o WordBytes(<<0, 2>>) \o WordBytes(<<0, nSamples>>)
    \o WordBytes(<<0, numFloatFeatures>>) \o WordBytes(<<0, numCatFeatures>>)
    \o Zeros(nSamples * (numFloatFeatures * 4 + numCatFeatures + 1)) \o Zeros(nSamples * 4)

\* 0xBEBAFECA, 0xCAFEBABF, 0
WrongWords == {<<48826, 65226>>, <<51966, 47807>>, <<0, 0>>}

TestFiles ==
    {FileV1(MagicWord, n, 0) : n \in 0..2}
    \cup {FileV1(MagicWord, 2, 8), FileV1(MagicWord, 0, 4), FileV2(MagicWord, 1)}
    \cup {FileV1(w, 1, 0) : w \in WrongWords}
    \cup {FileV2(w, 1) : w \in WrongWords}
    \cup {SubSeq(FileV1(<<0, 0>>, 0, 0), 1, 8), Zeros(2)}

Loaders == {"run_predictions", "simple_run", "worker"}

InitLoader ==
    /\ MainIdle
    /\ BinIdle
    /\ OneHotIdle
    /\ TreeIdle
    /\ BatchIdle
    /\ StageIdle
    /\ RejectIdle
    /\ BatchWorkerIdle
    /\ ParentIdle
    /\ \E k \in Loaders, f \in TestFiles :
         loader = [kind |-> k, bytes |-> f, pc |-> "header", header |-> <<>>,
                   log |-> <<>>, error |-> "", inputPtr |-> 0, outputPtr |-> 0,
                   freed |-> <<>>]

LoaderFrame ==
    UNCHANGED <<mainVars, binVars, ohVars, treeVars, batchVars, stageVars, rejectVars,
                batchWorker, parent>>

\* an exception that nothing catches before the script's last handler,
\* which prints it and calls process.exit(1)
Throw(msg) == [loader EXCEPT !.pc = "failed", !.error = msg]

\* the four header words; a read past the end of the file throws
ReadHeader ==
    /\ loader.pc = "header"
    /\ loader' =
         IF Len(loader.bytes) < 16 THEN Throw("RangeError")
         ELSE [loader EXCEPT
                 !.pc = "check",
                 !.log = Append(@, "header"),
                 !.header = [magic     |-> ReadUInt32LE(loader.bytes, 0),
                             version   |-> ReadUInt32LE(loader.bytes, 4),
                             nSamples  |-> ReadUInt32LE(loader.bytes, 8)[2],
                             nFeatures |-> ReadUInt32LE(loader.bytes, 12)[2]]]
    /\ LoaderFrame

\* if (magic !== 0xCAFEBABE) throw new Error(...)
CheckMagic ==
    /\ loader.pc = "check"
    /\ loader' =
         IF loader.header.magic # MagicWord
         THEN Throw(IF loader.kind = "worker" THEN "Invalid magic number"
                    ELSE "Invalid test data file format")
         ELSE [loader EXCEPT !.pc = IF loader.kind = "worker" THEN "mallocInput"
                                    ELSE "features"]
    /\ LoaderFrame

\* the bytes of the file up to the end of its feature values, as the loader
\* computes them from the header
FeaturesEnd ==
    IF loader.kind = "simple_run" /\ loader.header.version = <<0, 2>>
    THEN 20 + loader.header.nSamples * (loader.header.nFeatures * 4 + numCatFeatures + 1)
    ELSE 16 + loader.header.nSamples * loader.header.nFeatures * 4

\* loadTestData reads the feature values: readFloatLE / readUInt8 in the
\* version-2 branch, which throw past the end of the file, and a
\* Float32Array over the file's ArrayBuffer otherwise, which throws or not
\* past the end of the file as the ArrayBuffer is the file's or a larger one
LoadFeatures ==
    /\ loader.pc = "features"
    /\ \E outcome \in {"loaded", "RangeError"} :
         /\ FeaturesEnd <= Len(loader.bytes) => outcome = "loaded"
         /\ (FeaturesEnd > Len(loader.bytes)
               /\ loader.kind = "simple_run" /\ loader.header.version = <<0, 2>>)
              => outcome = "RangeError"
         /\ loader' =
              IF outcome = "loaded"
              THEN [loader EXCEPT !.pc = "predict", !.log = Append(@, "features")]
              ELSE [Throw("RangeError") EXCEPT !.log = Append(@, "features")]
    /\ LoaderFrame

\* main: await runPredictionsInWorker(...)
RunPredictions ==
    /\ loader.pc = "predict"
    /\ loader' = [loader EXCEPT !.pc = "done", !.log = Append(@, "predict")]
    /\ LoaderFrame

\* const inputPtr = moduleInstance._malloc(totalInputBytes): a block, or 0
MallocInput ==
    /\ loader.pc = "mallocInput"
    /\ \E ptr \in {0, 1} :
         loader' = [loader EXCEPT !.pc = "mallocOutput", !.inputPtr = ptr,
                                  !.log = Append(@, "malloc")]
    /\ LoaderFrame

\* const outputPtr = moduleInstance._malloc(totalOutputBytes)
MallocOutput ==
    /\ loader.pc = "mallocOutput"
    /\ \E ptr \in {0, 2} :
         loader' = [loader EXCEPT !.pc = "checkPtrs", !.outputPtr = ptr,
                                  !.log = Append(@, "malloc")]
    /\ LoaderFrame

\* if (!inputPtr || !outputPtr) throw new Error('Failed to allocate memory'),
\* before the try block
CheckPtrs ==
    /\ loader.pc = "checkPtrs"
    /\ loader' =
         IF loader.inputPtr = 0 \/ loader.outputPtr = 0
         THEN Throw("Failed to allocate memory")
         ELSE [loader EXCEPT !.pc = "copy"]
    /\ LoaderFrame

\* try { the copy loop: getFloat32 throws past the end of the file
CopyInput ==
    /\ loader.pc = "copy"
    /\ loader' =
         IF FeaturesEnd <= Len(loader.bytes)
         THEN [loader EXCEPT !.pc = "predictAll", !.log = Append(@, "features")]
         ELSE [loader EXCEPT !.pc = "freeInput", !.log = Append(@, "features"),
                             !.error = "RangeError"]
    /\ LoaderFrame

\* moduleInstance._catboostPredictAll(...), which returns or traps
PredictAll ==
    /\ loader.pc = "predictAll"
    /\ \E traps \in BOOLEAN :
         loader' =
            IF traps
            THEN [loader EXCEPT !.pc = "freeInput", !.log = Append(@, "predict"),
                                !.error = "RuntimeError"]
            ELSE [loader EXCEPT !.pc = "post", !.log = Append(@, "predict")]
    /\ LoaderFrame

\* parentPort.postMessage({ type: 'result', ... })
PostResult ==
    /\ loader.pc = "post"
    /\ loader' = [loader EXCEPT !.pc = "freeInput", !.log = Append(@, "result")]
    /\ LoaderFrame

\* } finally { moduleInstance._free(inputPtr);
FreeInput ==
    /\ loader.pc = "freeInput"
    /\ loader' = [loader EXCEPT !.pc = "freeOutput", !.freed = Append(@, loader.inputPtr)]
    /\ LoaderFrame

\* moduleInstance._free(outputPtr); }
FreeOutput ==
    /\ loader.pc = "freeOutput"
    /\ loader' = [loader EXCEPT !.pc = IF loader.error = "" THEN "done" ELSE "failed",
                                !.freed = Append(@, loader.outputPtr)]
    /\ LoaderFrame

NextLoader ==
    \/ ReadHeader
    \/ CheckMagic
    \/ LoadFeatures
    \/ RunPredictions
    \/ MallocInput
    \/ MallocOutput
    \/ CheckPtrs
    \/ CopyInput
    \/ PredictAll
    \/ PostResult
    \/ FreeInput
    \/ FreeOutput

SpecLoader == InitLoader /\ [][NextLoader]_vars

\* how often a block has been freed
FreesOf(ptr) == Cardinality({k \in 1..Len(loader.freed) : loader.freed[k] = ptr})

\* the blocks _malloc has returned
Allocated == {loader.inputPtr, loader.outputPtr} \ {0}

\* C29: in the single-batch worker every block obtained from _malloc
\* (inputPtr, outputPtr) is freed exactly once on every path that follows
\* its allocation: never twice, and once when the worker has ended, also
\* when the other allocation failed and when the copy or catboostPredictAll
\* threw.
C29_FreedExactlyOnce ==
    loader.kind = "worker" =>
        \A ptr \in Allocated :
            /\ FreesOf(ptr) <= 1
            /\ loader.pc \in {"done", "failed"} => FreesOf(ptr) = 1

\* the file has a first word and its bytes are not BE BA FE CA
BadMagic ==
    /\ Len(loader.bytes) >= 4
    /\ SubSeq(loader.bytes, 1, 4) # <<190, 186, 254, 202>>

============================================================================
